---- MODULE Spec2Model ----
(***************************************************************************)
(* Synchronisation of one database file between local clients and one     *)
(* remote object (core/storage_dropbox.py): probe_remote, pull_if_newer,  *)
(* push_with_rev, the sidecar files and the backup directory.             *)
(*                                                                         *)
(* Each client runs on its own machine: the local file, the two sidecars   *)
(* and the backup directory are private to it; the remote object is        *)
(* shared.  A call of pull_if_newer or push_with_rev is split at its       *)
(* requests to the remote store, so that the requests of several clients   *)
(* and of external writers interleave.                                     *)
(***************************************************************************)
EXTENDS Integers, Sequences, FiniteSets, TLC

\* ------------------------------------------------------------------ bounds
\* Revisions the remote store can issue in one behaviour.
MaxRev == 3
\* Seconds the wall clock advances in one behaviour.
MaxTime == 4
\* Schema versions of the migration engine.
MaxVersion == 3
\* Failures injected in one behaviour: of a request to the store, of a copy
\* into the backup directory, of an unlink, of a sidecar write; and damaged
\* sidecar files.
MaxFaults == 1

\* Greatest `attempts` a function is wrapped with.
MaxAttempts == 3

\* Statements the body of one transaction block runs at most.
MaxStmts == 2

\* Rows committed before the last call of execute_write begins.
MaxRows == 2

\* --------------------------------------------------------------- constants
MAX_BACKUPS == 3

Clients == {"c1", "c2"}
Contents == {1, 2}

\* Python's None, for the Optional[str] values read from sidecars.
None == 0

VARIABLES
    remote,     \* the remote object: [exists, rev, content]
    nextRev,    \* number of revisions the store has issued
    clock,      \* wall clock in seconds
    local,      \* local[c]: the local database file [exists, content, mtime]
    revFile,    \* revFile[c]: the <db>.rev sidecar file [kind, text]
    hashFile,   \* hashFile[c]: the <db>.hash sidecar file [kind, text]
    backupDir,  \* backupDir[c]: set of files [kind, ts, mtime, content]
    pc,         \* pc[c]: where client c stands in its current call
    curRev,     \* current_rev of the running call
    curHash,    \* current_hash of the running call
    info,       \* remote_info of the running call
    md,         \* md[c]: metadata the store returned to the call's transfer
    result,     \* result[c]: [op, ret] of the current / last call
    trace,      \* trace[c]: what the current / last call did, in order
    pre,        \* pre[c]: the sidecar files when the call started
    faults,     \* number of failures injected so far
    made,       \* made[c]: timestamps of the backups _make_backup made, in order
    db,         \* the database file as committed: [version, schema]
    conn,       \* the connection of _migrate: [open, version, schema]
    mig         \* the call of _migrate: [pc, registry, target, start, nxt, part, ran, ret],
                \* and `applied`: the migrations committed so far, over all calls
VARIABLES
    cycle,      \* the call of sync_before_db_use / sync_after_db_use:
                \* [op, pc, steps, pulled, ret]
    retry,      \* the call of a function wrapped by retry_on_locked
    txn         \* the `with transaction(conn, begin_mode)` block

vars == <<remote, nextRev, clock, local, revFile, hashFile, backupDir, pc,
          curRev, curHash, info, md, result, trace, pre, faults, made,
          db, conn, mig, cycle, retry, txn>>

\* The variables of the migration engine (core/db.py).
migVars == <<db, conn, mig>>

\* The variables of the callers and helpers: core/sync_cycle.py, and
\* retry_on_locked and transaction of core/db.py.
callVars == <<cycle, retry, txn>>

\* The variables of the synchronisation (core/storage_dropbox.py).
syncVars == <<remote, nextRev, clock, local, revFile, hashFile, backupDir, pc,
              curRev, curHash, info, md, result, trace, pre, faults, made>>

\* ------------------------------------------------------------ remote store
NoRemote == [exists |-> FALSE, rev |-> 0, content |-> 0]

\* The store's digest of an object's bytes (md.content_hash).
ContentHash(c) == 100 + c

NoMetadata == [kind |-> "none", rev |-> 0, hash |-> 0]

\* dbx.files_get_metadata(path): file metadata, a path error when nothing is
\* there, or any other failure of the lookup (fault = 1).
FilesGetMetadata(r, fault) ==
    IF fault = 1 THEN [kind |-> "error", rev |-> 0, hash |-> 0]
    ELSE IF r.exists
         THEN [kind |-> "file", rev |-> r.rev, hash |-> ContentHash(r.content)]
         ELSE [kind |-> "not_found", rev |-> 0, hash |-> 0]

NoInfo == [status |-> "none", rev |-> 0, hash |-> 0]

\* probe_remote: RemoteFileInfo for file metadata; None for an ApiError whose
\* error is_path() (whatever its tag: "not_found", or another lookup error,
\* "path_other") and for metadata that is not FileMetadata ("folder"); any
\* other ApiError is raised as RuntimeError and any other exception as itself.
ProbeRemote(m) ==
    IF m.kind = "file"
    THEN [status |-> "info", rev |-> m.rev, hash |-> m.hash]
    ELSE IF m.kind \in {"not_found", "path_other", "folder"}
         THEN NoInfo
         ELSE [status |-> "raise", rev |-> 0, hash |-> 0]

\* Every answer dbx.files_get_metadata can give for remote object r: the
\* two of FilesGetMetadata; folder metadata where no file is; an ApiError
\* that is a path error with another tag than not_found (malformed path,
\* restricted content, ...); an exception that is not an ApiError (transport,
\* authentication).
Lookups(r) ==
    {FilesGetMetadata(r, fault) : fault \in {0, 1}}
        \cup {[kind |-> k, rev |-> 0, hash |-> 0] : k \in {"path_other", "transport"}}
        \cup (IF r.exists THEN {} ELSE {[kind |-> "folder", rev |-> 0, hash |-> 0]})

\* A store that keeps the revision of an object it overwrites.
WriteRevsKept(r, data, issued) == IF r.exists THEN {r.rev} ELSE {issued + 1}

\* Revisions the store may give to a write of `data` over object r: a fresh
\* one; writing the bytes the object already holds may also keep its revision.
WriteRevs(r, data, issued) ==
    {issued + 1} \cup (IF r.exists /\ r.content = data THEN {r.rev} ELSE {})

\* A store that applies an update whatever revision the object has.
UpdateAcceptedAnyRev(expected, r) == r.exists

\* A store that applies an update over any revision not older than the
\* expected one.
UpdateAcceptedFrom(expected, r) == r.exists /\ r.rev >= expected

\* WriteMode.update(rev): the store applies the write only over an object
\* whose revision is `expected`.
UpdateAccepted(expected, r) == r.exists /\ r.rev = expected

\* A store whose add mode overwrites.
AddAcceptedAlways(r) == TRUE

\* WriteMode.add: the store applies the write only where no object is.
AddAccepted(r) == ~r.exists

\* dbx.files_upload(data, path, mode): the outcomes [kind, rev, fault].  An
\* accepted write is applied under a revision the store chooses; a write the
\* mode does not accept is rejected with a conflict error; the request may
\* fail otherwise (fault = 1).  Nothing but an applied write changes the object.
FilesUpload(r, data, mode, expected, issued) ==
    (IF (mode = "add" /\ AddAccepted(r)) \/ (mode = "update" /\ UpdateAccepted(expected, r))
     THEN {[kind |-> "ok", rev |-> v, fault |-> 0] :
                v \in {w \in WriteRevs(r, data, issued) : w <= MaxRev}}
     ELSE {[kind |-> "conflict", rev |-> 0, fault |-> 0]})
        \cup {[kind |-> "error", rev |-> 0, fault |-> 1]}

\* The object after upload outcome o of `data`.
Uploaded(r, data, o) ==
    IF o.kind = "ok" THEN [exists |-> TRUE, rev |-> o.rev, content |-> data] ELSE r

\* The FileMetadata an upload returns.
UploadMetadata(data, o) ==
    IF o.kind = "ok"
    THEN [kind |-> "file", rev |-> o.rev, hash |-> ContentHash(data)]
    ELSE NoMetadata

\* dbx.files_download_to_file(local, path): the request is answered with the
\* object the store holds when it is served, or fails before anything is
\* written (an ApiError when nothing is there, or any failure of the request);
\* the body of an answered request is then written straight into the local
\* path, and a transfer that breaks on the way leaves there what had arrived
\* and raises an error that is not an ApiError.
FilesDownload(r) ==
    (IF r.exists
     THEN {[kind |-> "ok", content |-> r.content, rev |-> r.rev,
            hash |-> ContentHash(r.content), fault |-> 0],
           [kind |-> "interrupted", content |-> 0, rev |-> r.rev,
            hash |-> ContentHash(r.content), fault |-> 1]}
     ELSE {[kind |-> "error", content |-> 0, rev |-> 0, hash |-> 0, fault |-> 0]})
        \cup {[kind |-> "error", content |-> 0, rev |-> 0, hash |-> 0, fault |-> 1]}

\* ----------------------------------------------------------- sidecar files
AbsentFile == [kind |-> "absent", text |-> 0]
EmptyFile == [kind |-> "empty", text |-> 0]
LockedFile == [kind |-> "locked", text |-> 0]
TextFile(v) == [kind |-> "text", text |-> v]

\* _read_sidecar: None for a missing, empty or unreadable (OSError) file.
ReadSidecar(f) == IF f.kind = "text" THEN f.text ELSE None

\* _write_sidecar: the file holds the value, or the write failed with an
\* OSError, which is logged and leaves the file as it was.
WriteSidecar(f, v) ==
    {[file |-> TextFile(v), fault |-> 0], [file |-> f, fault |-> 1]}

\* --------------------------------------------------------- backup manager
NoFile == [exists |-> FALSE, content |-> 0, mtime |-> 0]

\* A glob that matches every file of the backup directory.
EveryFile(dir) == dir

\* backup_dir.glob(f"{base_stem}_*.bak*"): the ordinary backups; the name of
\* a conflicted copy, <stem>_conflicted_<timestamp>.db, does not match.
Ordinary(dir) == {f \in dir : f.kind = "bak"}

\* shutil.copy2(local, backup_dir / name): the name is fixed by kind and
\* timestamp, an existing file of that name is overwritten, and the copy
\* keeps the modification time of the source.
CopyInto(dir, kind, loc, now) ==
    {f \in dir : ~(f.kind = kind /\ f.ts = now)}
        \cup {[kind |-> kind, ts |-> now, mtime |-> loc.mtime, content |-> loc.content]}

\* _rotate_backups: the ordinary backups sorted by modification time, newest
\* first (ties in directory order); all but the first MAX_BACKUPS are
\* unlinked, and an unlink that fails is logged and leaves its file.
RotateBackups(dir) ==
    LET ord == Ordinary(dir)
        n == IF Cardinality(ord) < MAX_BACKUPS THEN Cardinality(ord) ELSE MAX_BACKUPS
    IN  { [dir |-> dir \ gone.del, fault |-> IF gone.del = gone.extra THEN 0 ELSE 1] :
            gone \in UNION { {[del |-> d, extra |-> ord \ keep] : d \in SUBSET (ord \ keep)} :
                keep \in { k \in SUBSET ord :
                            /\ Cardinality(k) = n
                            /\ \A a \in k, b \in ord \ k : a.mtime >= b.mtime } } }

\* A variant of the backup below that reports success without copying.
MakeBackupSkipped(dir, loc, now) == {[ok |-> TRUE, dir |-> dir, fault |-> 0]}

\* _make_backup as push_with_rev sees it: [ok, dir].  The copy fails (nothing
\* written), or it is made and the rotation raises, or both succeed.
MakeBackup(dir, loc, now) ==
    {[ok |-> FALSE, dir |-> dir, fault |-> 1]}
        \cup {[ok |-> FALSE, dir |-> CopyInto(dir, "bak", loc, now), fault |-> 1]}
        \cup {[ok |-> TRUE, dir |-> d.dir, fault |-> d.fault] :
                    d \in RotateBackups(CopyInto(dir, "bak", loc, now))}

\* _make_conflicted_copy: [ok, dir]; the copy is made, or it fails.
MakeConflictedCopy(dir, loc, now) ==
    {[ok |-> TRUE, dir |-> CopyInto(dir, "conflicted", loc, now), fault |-> 0],
     [ok |-> FALSE, dir |-> dir, fault |-> 1]}

\* -------------------------------------------------------------------- Init
InitRemotes == {NoRemote, [exists |-> TRUE, rev |-> 1, content |-> 1]}

InitLocals == {NoFile, [exists |-> TRUE, content |-> 1, mtime |-> 0]}

\* Never synchronised, or synchronised with the remote object.
InitSidecars(r) ==
    {[rev |-> AbsentFile, hash |-> AbsentFile]}
        \cup (IF r.exists
              THEN {[rev |-> TextFile(r.rev), hash |-> TextFile(ContentHash(r.content))]}
              ELSE {})

\* The clients of `active` start with or without a local file, never
\* synchronised or synchronised with the remote object; the others have
\* nothing and stay out.
InitOf(active) ==
    /\ remote \in InitRemotes
    /\ nextRev = (IF remote.exists THEN 1 ELSE 0)
    /\ clock = 0
    /\ local \in {l \in [Clients -> InitLocals] : \A c \in Clients \ active : l[c] = NoFile}
    /\ \E sc \in [Clients -> InitSidecars(remote)] :
        /\ \A c \in Clients \ active : sc[c].rev = AbsentFile
        /\ revFile = [c \in Clients |-> sc[c].rev]
        /\ hashFile = [c \in Clients |-> sc[c].hash]
    /\ backupDir = [c \in Clients |-> {}]
    /\ pc = [c \in Clients |-> "idle"]
    /\ curRev = [c \in Clients |-> None]
    /\ curHash = [c \in Clients |-> None]
    /\ info = [c \in Clients |-> NoInfo]
    /\ result = [c \in Clients |-> [op |-> "none", ret |-> "none"]]
    /\ trace = [c \in Clients |-> <<>>]
    /\ md = [c \in Clients |-> NoMetadata]
    /\ pre = [c \in Clients |-> [rev |-> revFile[c], hash |-> hashFile[c]]]
    /\ made = [c \in Clients |-> <<>>]

\* A connection outside any transaction.
NoConn == [open |-> FALSE, version |-> 0, schema |-> {}]

\* No call of _migrate, on a fresh database file.
NoMigration ==
    /\ db = [version |-> 0, schema |-> {}]
    /\ conn = NoConn
    /\ mig = [pc |-> "idle", registry |-> {}, target |-> 0, start |-> 0, nxt |-> 0,
              part |-> 0, ran |-> <<>>, ret |-> "none", applied |-> <<>>]

\* No call of sync_before_db_use or sync_after_db_use.
NoCycle == [op |-> "none", pc |-> "idle", steps |-> <<>>, pulled |-> "none", ret |-> "none"]

\* What an invocation of a function ends with: a returned value or a raised
\* exception [kind, type, msg, value]; NoOutcome before there is any.
NoOutcome == [kind |-> "none", type |-> "none", msg |-> "none", value |-> 0]

\* No call of a function wrapped by retry_on_locked.
NoRetry ==
    [pc |-> "idle", attempts |-> 0, tries |-> 0, i |-> 0, calls |-> 0,
     outcomes |-> <<>>, ret |-> NoOutcome]

\* No `with transaction(...)` block.
NoTxn ==
    [pc |-> "idle", mode |-> "DEFERRED", before |-> [version |-> 0, schema |-> {}],
     stmts |-> <<>>, raised |-> "none", ret |-> "none"]

NoCalls == cycle = NoCycle /\ retry = NoRetry /\ txn = NoTxn

\* One client, its peers seen as external writers, and failures.
Observed == {"c1"}

Init == InitOf(Observed) /\ faults = 0 /\ NoMigration /\ NoCalls

\* All clients, no failures.
InitClients == InitOf(Clients) /\ faults = MaxFaults /\ NoMigration /\ NoCalls

\* A failure can be injected while the budget lasts.
Within(n) == faults + n <= MaxFaults

Snapshot(c) == [rev |-> revFile[c], hash |-> hashFile[c]]

\* _write_sidecar twice (lines 479-480, 584-585, 377-378): each write on its
\* own.
WriteSidecars(c, v) ==
    \E rf \in WriteSidecar(revFile[c], v.rev), hf \in WriteSidecar(hashFile[c], v.hash) :
        /\ Within(rf.fault + hf.fault)
        /\ faults' = faults + rf.fault + hf.fault
        /\ revFile' = [revFile EXCEPT ![c] = rf.file]
        /\ hashFile' = [hashFile EXCEPT ![c] = hf.file]

\* The call of client c ends: its local variables go out of scope.
Leave(c) ==
    /\ pc' = [pc EXCEPT ![c] = "idle"]
    /\ curRev' = [curRev EXCEPT ![c] = None]
    /\ curHash' = [curHash EXCEPT ![c] = None]
    /\ info' = [info EXCEPT ![c] = NoInfo]

\* ------------------------------------------------------------ push_with_rev
\* Variants of the decisions below, each a push_with_rev with one guard
\* changed; the properties of the claims section tell them from the code.
LocalNeverMissing(loc) == FALSE

BackupFailureRaises(b) == ~b.ok

ConflictedCopyFailureRaises(k) == ~k.ok

\* Uploads over any remote revision once a sidecar revision is there.
PushCaseNoDivergedTest(cur, p) ==
    IF p.status = "raise" THEN "raise"
    ELSE IF p.status = "none" THEN "add"
    ELSE IF cur = None THEN "no_rev"
    ELSE "update"

\* Takes a missing sidecar revision for the remote one.
PushCaseNoneUploads(cur, p) ==
    IF p.status = "raise" THEN "raise"
    ELSE IF p.status = "none" THEN "add"
    ELSE IF cur # None /\ cur # p.rev THEN "diverged"
    ELSE "update"

\* Takes a diverged remote for none and uploads in create mode.
PushCaseDivergedAdds(cur, p) ==
    IF p.status = "raise" THEN "raise"
    ELSE IF p.status = "none" THEN "add"
    ELSE IF cur = None THEN "no_rev"
    ELSE IF cur # p.rev THEN "add"
    ELSE "update"

\* Takes a sidecar revision without a remote object for a conflict.
PushCaseStaleRefuses(cur, p) ==
    IF p.status = "raise" THEN "raise"
    ELSE IF p.status = "none" /\ cur = None THEN "add"
    ELSE IF cur = None THEN "no_rev"
    ELSE IF cur # p.rev THEN "diverged"
    ELSE "update"

UploadErrorAlwaysRaises(kind) == "RuntimeError"

\* Line 427: the precondition of the push.
LocalMissing(loc) == ~loc.exists

\* Lines 438-446: an exception of _make_backup is logged and goes no further.
BackupRaises(b) == FALSE

\* Lines 520-527 and 558-566: an exception of _make_conflicted_copy is logged
\* and goes no further.
ConflictedCopyRaises(k) == FALSE

\* Lines 458-535: the case push_with_rev takes for sidecar revision `cur` and
\* probe result p.
PushCase(cur, p) ==
    IF p.status = "raise" THEN "raise"
    ELSE IF p.status = "none" THEN "add"
    ELSE IF cur = None THEN "no_rev"
    ELSE IF cur # p.rev THEN "diverged"
    ELSE "update"

\* A variant that also wants the hash sidecar to agree with the remote before
\* it updates.
PushDecisionByHash(rev, hash, p) ==
    IF PushCase(rev, p) = "update" /\ hash # p.hash THEN "diverged" ELSE PushCase(rev, p)

\* Lines 449-535: the case taken, given both sidecar values read at lines
\* 450-451 and the probe: current_hash is read and used in no test.
PushDecision(rev, hash, p) == PushCase(rev, p)

\* Lines 545-581: an ApiError of the conditional upload that is a path
\* conflict ends the call with False, any other is raised as RuntimeError.
UploadErrorResult(kind) == IF kind = "conflict" THEN "False" ELSE "RuntimeError"

\* A variant that writes to the sidecars what the probe before the upload saw.
PushSidecarValuesOfProbe(m, p) == [rev |-> p.rev, hash |-> p.hash]

\* Lines 479-480 and 584-585: the sidecars take the metadata of the upload.
PushSidecarValues(m, p) == [rev |-> m.rev, hash |-> m.hash]

\* Lines 420-451: the local file must exist (FileNotFoundError otherwise);
\* the pre-push backup is attempted; the sidecars are read.
PushBegin(c) ==
    /\ pc[c] = "idle"
    /\ pre' = [pre EXCEPT ![c] = Snapshot(c)]
    /\ IF LocalMissing(local[c])
       THEN /\ result' = [result EXCEPT ![c] = [op |-> "push", ret |-> "FileNotFoundError"]]
            /\ trace' = [trace EXCEPT ![c] = <<"local_missing">>]
            /\ UNCHANGED <<backupDir, pc, curRev, curHash, info, md, faults>>
       ELSE \E b \in MakeBackup(backupDir[c], local[c], clock) :
            /\ Within(b.fault)
            /\ faults' = faults + b.fault
            /\ backupDir' = [backupDir EXCEPT ![c] = b.dir]
            /\ md' = [md EXCEPT ![c] = NoMetadata]
            /\ IF BackupRaises(b)
               THEN /\ result' = [result EXCEPT ![c] = [op |-> "push", ret |-> "RuntimeError"]]
                    /\ trace' = [trace EXCEPT ![c] = <<"backup_failed">>]
                    /\ UNCHANGED <<pc, curRev, curHash, info>>
               ELSE /\ result' = [result EXCEPT ![c] = [op |-> "push", ret |-> "running"]]
                    /\ trace' = [trace EXCEPT ![c] =
                            <<IF b.ok THEN "backup" ELSE "backup_failed", "read_sidecars">>]
                    /\ curRev' = [curRev EXCEPT ![c] = ReadSidecar(revFile[c])]
                    /\ curHash' = [curHash EXCEPT ![c] = ReadSidecar(hashFile[c])]
                    /\ pc' = [pc EXCEPT ![c] = "push_probe"]
                    /\ UNCHANGED info
    /\ UNCHANGED <<remote, nextRev, clock, local, revFile, hashFile>>

\* Lines 510-528 and 558-568: the conflicted copy, then False.
RefuseWithCopy(c, events) ==
    \E k \in MakeConflictedCopy(backupDir[c], local[c], clock) :
        /\ Within(k.fault)
        /\ faults' = faults + k.fault
        /\ backupDir' = [backupDir EXCEPT ![c] = k.dir]
        /\ trace' = [trace EXCEPT ![c] = @ \o events \o
                <<IF k.ok THEN "conflicted_copy" ELSE "conflicted_copy_failed">>]
        /\ result' = [result EXCEPT ![c].ret =
                IF ConflictedCopyRaises(k) THEN "RuntimeError" ELSE "False"]
        /\ Leave(c)

\* Lines 453-535: the probe and the choice of the case.
PushProbe(c) ==
    /\ pc[c] = "push_probe"
    /\ \E fault \in {0, 1} :
        LET p == ProbeRemote(FilesGetMetadata(remote, fault))
            case == PushDecision(curRev[c], curHash[c], p)
        IN
        /\ Within(fault)
        /\ IF case = "raise"
           THEN /\ result' = [result EXCEPT ![c].ret = "RuntimeError"]
                /\ trace' = [trace EXCEPT ![c] = Append(@, "probe_error")]
                /\ Leave(c)
                /\ faults' = faults + fault
                /\ UNCHANGED backupDir
           ELSE IF case = "no_rev"
           THEN /\ result' = [result EXCEPT ![c].ret = "False"]
                /\ trace' = [trace EXCEPT ![c] = @ \o <<"probe", "no_sidecar_rev">>]
                /\ Leave(c)
                /\ UNCHANGED <<backupDir, faults>>
           ELSE IF case = "diverged"
           THEN RefuseWithCopy(c, <<"probe", "rev_diverged">>)
           ELSE /\ info' = [info EXCEPT ![c] = p]
                /\ trace' = [trace EXCEPT ![c] = Append(@, "probe")]
                /\ pc' = [pc EXCEPT ![c] = IF case = "add" THEN "push_add" ELSE "push_update"]
                /\ UNCHANGED <<backupDir, result, faults, curRev, curHash>>
    /\ UNCHANGED <<remote, nextRev, clock, local, revFile, hashFile, md, pre>>

\* Lines 464-488 and 537-595: the upload in the mode of the case, and what
\* follows its outcome.
PushUpload(c, mode) ==
    \E o \in FilesUpload(remote, local[c].content, mode, curRev[c], nextRev) :
        /\ Within(o.fault)
        /\ remote' = Uploaded(remote, local[c].content, o)
        /\ nextRev' = IF o.rev > nextRev THEN o.rev ELSE nextRev
        /\ md' = [md EXCEPT ![c] = UploadMetadata(local[c].content, o)]
        /\ IF o.kind = "ok"
           THEN /\ WriteSidecars(c, PushSidecarValues(md'[c], info[c]))
                /\ result' = [result EXCEPT ![c].ret = "True"]
                /\ trace' = [trace EXCEPT ![c] =
                        @ \o <<IF mode = "add" THEN "upload_add" ELSE "upload_update",
                               "write_sidecars">>]
                /\ Leave(c)
                /\ UNCHANGED backupDir
           ELSE IF mode = "update" /\ UploadErrorResult(o.kind) = "False"
           THEN /\ RefuseWithCopy(c, <<"upload_rejected">>)
                /\ UNCHANGED <<revFile, hashFile>>
           ELSE /\ result' = [result EXCEPT ![c].ret = "RuntimeError"]
                /\ trace' = [trace EXCEPT ![c] = Append(@,
                        IF o.kind = "conflict" THEN "upload_rejected" ELSE "upload_failed")]
                /\ Leave(c)
                /\ faults' = faults + o.fault
                /\ UNCHANGED <<revFile, hashFile, backupDir>>

\* Lines 458-488: first upload, files_upload(mode=WriteMode.add).
PushAdd(c) ==
    /\ pc[c] = "push_add"
    /\ PushUpload(c, "add")
    /\ UNCHANGED <<clock, local, pre>>

\* Lines 530-595: files_upload(mode=WriteMode.update(current_rev)).
PushUpdate(c) ==
    /\ pc[c] = "push_update"
    /\ PushUpload(c, "update")
    /\ UNCHANGED <<clock, local, pre>>

\* ------------------------------------------------------------ pull_if_newer
\* A variant of the up-to-date test that compares the revision only.
UpToDateRevOnly(loc, rev, hash, p) == loc.exists /\ rev = p.rev

\* Lines 340-344: the local copy is taken to be current.
UpToDate(loc, rev, hash, p) == loc.exists /\ rev = p.rev /\ hash = p.hash

\* Lines 377-378: the sidecars take the probe's remote_info; the metadata m
\* of the download is not used.
PullSidecarValues(m, p) == [rev |-> p.rev, hash |-> p.hash]

\* Lines 312-360: the probe, the sidecars, and the up-to-date test.
PullBegin(c) ==
    /\ pc[c] = "idle"
    /\ pre' = [pre EXCEPT ![c] = Snapshot(c)]
    /\ md' = [md EXCEPT ![c] = NoMetadata]
    /\ \E fault \in {0, 1} :
        LET p == ProbeRemote(FilesGetMetadata(remote, fault))
            rev == ReadSidecar(revFile[c])
            hash == ReadSidecar(hashFile[c])
        IN
        /\ Within(fault)
        /\ faults' = faults + fault
        /\ IF p.status = "raise"
           THEN /\ result' = [result EXCEPT ![c] = [op |-> "pull", ret |-> "RuntimeError"]]
                /\ trace' = [trace EXCEPT ![c] = <<"probe_error">>]
                /\ UNCHANGED <<pc, curRev, curHash, info>>
           ELSE IF p.status = "none"
           THEN /\ result' = [result EXCEPT ![c] = [op |-> "pull", ret |-> "False"]]
                /\ trace' = [trace EXCEPT ![c] = <<"probe">>]
                /\ UNCHANGED <<pc, curRev, curHash, info>>
           ELSE IF UpToDate(local[c], rev, hash, p)
           THEN /\ result' = [result EXCEPT ![c] = [op |-> "pull", ret |-> "False"]]
                /\ trace' = [trace EXCEPT ![c] = <<"probe", "read_sidecars", "up_to_date">>]
                /\ UNCHANGED <<pc, curRev, curHash, info>>
           ELSE /\ result' = [result EXCEPT ![c] = [op |-> "pull", ret |-> "running"]]
                /\ trace' = [trace EXCEPT ![c] = <<"probe", "read_sidecars">>]
                /\ info' = [info EXCEPT ![c] = p]
                /\ curRev' = [curRev EXCEPT ![c] = rev]
                /\ curHash' = [curHash EXCEPT ![c] = hash]
                /\ pc' = [pc EXCEPT ![c] = "pull_download"]
    /\ UNCHANGED <<remote, nextRev, clock, local, revFile, hashFile, backupDir>>

\* A variant that reports a completed download as no download.
DownloadResultNeverTrue(kind) == IF kind = "error" THEN "RuntimeError" ELSE "False"

\* Lines 362-387: how pull_if_newer ends after the download request: True
\* when it completed, RuntimeError for an ApiError, the error itself otherwise.
DownloadResult(kind) ==
    IF kind = "ok" THEN "True"
    ELSE IF kind = "error" THEN "RuntimeError"
    ELSE "TransferError"

\* A variant that saves the local file to the backup directory before the
\* download replaces it.
PullBackupDirSaved(dir, loc, now) ==
    IF loc.exists THEN CopyInto(dir, "bak", loc, now) ELSE dir

\* Lines 289-387: the backup directory after pull_if_newer, which calls
\* neither _make_backup nor _make_conflicted_copy: as it was.
PullBackupDir(dir, loc, now) == dir

\* Lines 362-387: the download into the local file, then the sidecars; an
\* ApiError of the download is raised as RuntimeError.
PullDownload(c) ==
    /\ pc[c] = "pull_download"
    /\ \E d \in FilesDownload(remote) :
        /\ Within(d.fault)
        /\ IF d.kind = "ok"
           THEN /\ local' = [local EXCEPT ![c] =
                        [exists |-> TRUE, content |-> d.content, mtime |-> clock]]
                /\ md' = [md EXCEPT ![c] = [kind |-> "file", rev |-> d.rev, hash |-> d.hash]]
                /\ WriteSidecars(c, PullSidecarValues(md'[c], info[c]))
                /\ result' = [result EXCEPT ![c].ret = DownloadResult(d.kind)]
                /\ trace' = [trace EXCEPT ![c] = @ \o <<"download", "write_sidecars">>]
           ELSE /\ faults' = faults + d.fault
                /\ local' = IF d.kind = "interrupted"
                            THEN [local EXCEPT ![c] =
                                    [exists |-> TRUE, content |-> d.content, mtime |-> clock]]
                            ELSE local
                /\ result' = [result EXCEPT ![c].ret = DownloadResult(d.kind)]
                /\ trace' = [trace EXCEPT ![c] = Append(@, "download_failed")]
                /\ UNCHANGED <<revFile, hashFile, md>>
    /\ backupDir' = [backupDir EXCEPT ![c] = PullBackupDir(@, local[c], clock)]
    /\ Leave(c)
    /\ UNCHANGED <<remote, nextRev, clock, pre>>

\* -------------------------------------------------------------- environment
\* Another writer replaces or creates the remote object.
ExternalWrite(data) ==
    /\ nextRev < MaxRev
    /\ remote' = [exists |-> TRUE, rev |-> nextRev + 1, content |-> data]
    /\ nextRev' = nextRev + 1
    /\ UNCHANGED <<clock, local, revFile, hashFile, backupDir, pc, curRev, curHash,
                   info, md, result, trace, pre, faults>>

\* Another writer deletes the remote object.
ExternalDelete ==
    /\ remote.exists
    /\ remote' = NoRemote
    /\ UNCHANGED <<nextRev, clock, local, revFile, hashFile, backupDir, pc, curRev,
                   curHash, info, md, result, trace, pre, faults>>

\* The application writes the local database between two sync calls.
LocalEdit(c, data) ==
    /\ pc[c] = "idle"
    /\ data # local[c].content
    /\ local' = [local EXCEPT ![c] = [exists |-> TRUE, content |-> data, mtime |-> clock]]
    /\ UNCHANGED <<remote, nextRev, clock, revFile, hashFile, backupDir, pc, curRev,
                   curHash, info, md, result, trace, pre, faults>>

\* The revision sidecar is lost, emptied or made unreadable between two calls.
SidecarDamage(c, f) ==
    /\ pc[c] = "idle"
    /\ Within(1)
    /\ faults' = faults + 1
    /\ f # revFile[c]
    /\ revFile' = [revFile EXCEPT ![c] = f]
    /\ UNCHANGED <<remote, nextRev, clock, local, hashFile, backupDir, pc, curRev,
                   curHash, info, md, result, trace, pre>>

\* ---------------------------------------------------------- specifications
\* Spec: one client with every failure, its peers seen as external writers.
\* The log of backups is not kept.
Next ==
    \/ \E c \in Observed : PushBegin(c) /\ UNCHANGED <<made, migVars, callVars>>
    \/ \E c \in Observed : PushProbe(c) /\ UNCHANGED <<made, migVars, callVars>>
    \/ \E c \in Observed : PushAdd(c) /\ UNCHANGED <<made, migVars, callVars>>
    \/ \E c \in Observed : PushUpdate(c) /\ UNCHANGED <<made, migVars, callVars>>
    \/ \E c \in Observed : PullBegin(c) /\ UNCHANGED <<made, migVars, callVars>>
    \/ \E c \in Observed : PullDownload(c) /\ UNCHANGED <<made, migVars, callVars>>
    \/ \E data \in Contents : ExternalWrite(data) /\ UNCHANGED <<made, migVars, callVars>>
    \/ ExternalDelete /\ UNCHANGED <<made, migVars, callVars>>
    \/ \E c \in Observed, data \in Contents : LocalEdit(c, data) /\ UNCHANGED <<made, migVars, callVars>>
    \/ \E c \in Observed, f \in {AbsentFile, EmptyFile, LockedFile} : SidecarDamage(c, f) /\ UNCHANGED <<made, migVars, callVars>>

Spec == Init /\ [][Next]_vars

\* SpecClients: all clients, each the external writer of the others, without
\* failures.
NextClients ==
    \/ \E c \in Clients : PushBegin(c) /\ UNCHANGED <<made, migVars, callVars>>
    \/ \E c \in Clients : PushProbe(c) /\ UNCHANGED <<made, migVars, callVars>>
    \/ \E c \in Clients : PushAdd(c) /\ UNCHANGED <<made, migVars, callVars>>
    \/ \E c \in Clients : PushUpdate(c) /\ UNCHANGED <<made, migVars, callVars>>
    \/ \E c \in Clients : PullBegin(c) /\ UNCHANGED <<made, migVars, callVars>>
    \/ \E c \in Clients : PullDownload(c) /\ UNCHANGED <<made, migVars, callVars>>
    \/ \E c \in Clients, data \in Contents : LocalEdit(c, data) /\ UNCHANGED <<made, migVars, callVars>>

SpecClients == InitClients /\ [][NextClients]_vars

\* SpecBackups: the backup directory of one client over a series of pushes,
\* the wall clock advancing, without failures; the backups made are logged.
\* datetime.now() of lines 71 and 86: the wall clock moves on by one second.
Tick ==
    /\ clock < MaxTime
    /\ clock' = clock + 1
    /\ UNCHANGED <<remote, nextRev, local, revFile, hashFile, backupDir, pc, curRev,
                   curHash, info, md, result, trace, pre, faults, made>>

\* Pushes followed in one behaviour of SpecBackups.
MaxCalls == MAX_BACKUPS + 2

\* The push of client c begins and the backup it makes (lines 71-74) is
\* logged under its timestamp.
PushBeginLogged(c) ==
    /\ Len(made[c]) < MaxCalls
    /\ PushBegin(c)
    /\ made' = [made EXCEPT ![c] =
                IF pc'[c] = "push_probe" /\ trace'[c][1] = "backup"
                THEN Append(@, clock) ELSE @]

\* What the application writes into the local database in SpecBackups:
\* contents the file does not start with.
Edits == Contents \ {l.content : l \in InitLocals}

InitBackups ==
    /\ InitOf(Observed)
    /\ \A c \in Observed : local[c].exists
    /\ faults = MaxFaults
    /\ NoMigration
    /\ NoCalls

NextBackups ==
    \/ Tick /\ UNCHANGED <<migVars, callVars>>
    \/ \E c \in Observed : PushBeginLogged(c) /\ UNCHANGED <<migVars, callVars>>
    \/ \E c \in Observed : PushProbe(c) /\ UNCHANGED <<made, migVars, callVars>>
    \/ \E c \in Observed : PushAdd(c) /\ UNCHANGED <<made, migVars, callVars>>
    \/ \E c \in Observed : PushUpdate(c) /\ UNCHANGED <<made, migVars, callVars>>
    \/ \E data \in Contents : ExternalWrite(data) /\ UNCHANGED <<made, migVars, callVars>>
    \/ \E c \in Observed, data \in Edits : LocalEdit(c, data) /\ UNCHANGED <<made, migVars, callVars>>

SpecBackups == InitBackups /\ [][NextBackups]_vars

\* SpecProbe: probe_remote on every answer of the metadata lookup, the
\* remote object changing under external writers.
\* Lines 216-285: a call of probe_remote by client c; md[c] keeps the answer
\* of the lookup, info[c] what probe_remote makes of it.
Probe(c) ==
    /\ \E m \in Lookups(remote) :
        /\ md' = [md EXCEPT ![c] = m]
        /\ info' = [info EXCEPT ![c] = ProbeRemote(m)]
        /\ result' = [result EXCEPT ![c] = [op |-> "probe", ret |->
                IF info'[c].status = "info" THEN "RemoteFileInfo"
                ELSE IF info'[c].status = "none" THEN "None"
                ELSE IF m.kind = "transport" THEN "TransferError"
                ELSE "RuntimeError"]]
    /\ UNCHANGED <<remote, nextRev, clock, local, revFile, hashFile, backupDir, pc,
                   curRev, curHash, trace, pre, faults, made>>

NextProbe ==
    \/ \E c \in Clients : Probe(c) /\ UNCHANGED <<migVars, callVars>>
    \/ \E data \in Contents : ExternalWrite(data) /\ UNCHANGED <<made, migVars, callVars>>
    \/ ExternalDelete /\ UNCHANGED <<made, migVars, callVars>>

SpecProbe == InitClients /\ [][NextProbe]_vars

\* SpecFresh: one client alone with the remote store, from a fresh
\* environment (no remote object, no sidecars, a local file): pushes, edits
\* of the local database and probes between them, without failures of the
\* client's files or of the uploads.
InitFresh ==
    /\ InitOf(Observed)
    /\ remote = NoRemote
    /\ \A c \in Observed :
            local[c].exists /\ revFile[c] = AbsentFile /\ hashFile[c] = AbsentFile
    /\ faults = MaxFaults
    /\ NoMigration
    /\ NoCalls

NextFresh ==
    \/ \E c \in Observed : PushBeginLogged(c) /\ UNCHANGED <<migVars, callVars>>
    \/ \E c \in Observed : PushProbe(c) /\ UNCHANGED <<made, migVars, callVars>>
    \/ \E c \in Observed : PushAdd(c) /\ UNCHANGED <<made, migVars, callVars>>
    \/ \E c \in Observed : PushUpdate(c) /\ UNCHANGED <<made, migVars, callVars>>
    \/ \E c \in Observed : pc[c] = "idle" /\ Probe(c) /\ UNCHANGED <<migVars, callVars>>
    \/ \E c \in Observed, data \in Contents : LocalEdit(c, data) /\ UNCHANGED <<made, migVars, callVars>>

SpecFresh == InitFresh /\ [][NextFresh]_vars

\* ------------------------------------------------------- schema migrations
\* The statements of one migration function, in order (db.py lines 291-302:
\* the table, then its indexes).
Parts == {1, 2}

LastPart == 2

\* The schema of a database whose migrations 1..v have all been applied.
SchemaAt(v) == (1..v) \X Parts

\* A variant of the read below that takes every database for a fresh one.
GetUserVersionFresh(d) == 0

\* _get_user_version: PRAGMA user_version of the database file.
GetUserVersion(d) == d.version

\* _set_user_version, inside the open transaction.
SetUserVersion(c, v) == [c EXCEPT !.version = v]

\* A variant of the guard below that lets any version pass.
FutureSchemaAllowed(current, target) == FALSE

\* Line 315: the database is ahead of the code.
FutureSchema(current, target) == current > target

\* A variant of the lookup below that takes every version for registered.
RegisteredAlways(reg, v) == TRUE

\* Lines 325-326: MIGRATIONS.get(nxt) is not None.
Registered(reg, v) == v \in reg

\* A variant of the loop below that steps over every other version.
NextVersionSkipping(v) == v + 2

\* Line 324: range(current + 1, target_version + 1) moves on by one.
NextVersion(v) == v + 1

\* transaction(), line 145: BEGIN; the connection works on a copy of the
\* committed database.
Begin(d) == [open |-> TRUE, version |-> d.version, schema |-> d.schema]

\* Statement p of migration k, run on the connection (line 331).
Apply(c, k, p) == [c EXCEPT !.schema = @ \cup {<<k, p>>}]

\* transaction(), line 147: conn.commit().
Commit(d, c) == [version |-> c.version, schema |-> c.schema]

\* A variant of the rollback below under which what the connection has done
\* stays in the database.
RollbackKeepsWork(d, c) == IF c.open THEN [version |-> c.version, schema |-> c.schema] ELSE d

\* A variant of the rollback below that undoes every transaction there was.
RollbackAll(d, c) == [version |-> 0, schema |-> {}]

\* transaction(), lines 148-150: conn.rollback(); the database is as committed.
Rollback(d, c) == d

\* An exception inside `with transaction(...)`, or of BEGIN or of the commit:
\* rollback, and the exception leaves _migrate.
Abort ==
    /\ db' = Rollback(db, conn)
    /\ conn' = NoConn
    /\ mig' = [mig EXCEPT !.pc = "idle", !.ret = "Error"]

\* Lines 313-322: _migrate(conn, target) reads the version and refuses a
\* database from the future, or returns when there is nothing to do.
MigrateCall(target) ==
    /\ mig.pc = "idle"
    /\ LET current == GetUserVersion(db)
           call == [mig EXCEPT !.target = target, !.start = current, !.nxt = 0,
                               !.part = 0, !.ran = <<>>]
       IN  mig' = IF FutureSchema(current, target)
                  THEN [call EXCEPT !.ret = "RuntimeError"]
                  ELSE IF current = target
                  THEN [call EXCEPT !.ret = "returned"]
                  ELSE [call EXCEPT !.pc = "next", !.nxt = NextVersion(current),
                                    !.ret = "running"]
    /\ UNCHANGED <<db, conn>>

\* Lines 324-328: the head of the loop and the lookup of the migration.
MigrateNext ==
    /\ mig.pc = "next"
    /\ mig' = IF mig.nxt > mig.target
              THEN [mig EXCEPT !.pc = "idle", !.ret = "returned"]
              ELSE IF ~Registered(mig.registry, mig.nxt)
              THEN [mig EXCEPT !.pc = "idle", !.ret = "RuntimeError"]
              ELSE [mig EXCEPT !.pc = "begin"]
    /\ UNCHANGED <<db, conn>>

\* Lines 330 and 141-146: BEGIN DEFERRED, then the migration is called.
MigrateBegin ==
    /\ mig.pc = "begin"
    /\ \/ /\ conn' = Begin(db)
          /\ mig' = [mig EXCEPT !.pc = "body", !.part = 1, !.ran = Append(@, mig.nxt)]
          /\ UNCHANGED db
       \/ Abort

\* Line 331: the next statement of the migration; it may raise.
MigrateBody ==
    /\ mig.pc = "body"
    /\ \/ /\ conn' = Apply(conn, mig.nxt, mig.part)
          /\ mig' = IF mig.part = LastPart
                    THEN [mig EXCEPT !.pc = "set_version"]
                    ELSE [mig EXCEPT !.part = @ + 1]
          /\ UNCHANGED db
       \/ Abort

\* Line 332: _set_user_version(conn, nxt).
MigrateSetVersion ==
    /\ mig.pc = "set_version"
    /\ \/ /\ conn' = SetUserVersion(conn, mig.nxt)
          /\ mig' = [mig EXCEPT !.pc = "commit"]
          /\ UNCHANGED db
       \/ Abort

\* Lines 147 and 333: the commit, and on to the next version.
MigrateCommit ==
    /\ mig.pc = "commit"
    /\ \/ /\ db' = Commit(db, conn)
          /\ conn' = NoConn
          /\ mig' = [mig EXCEPT !.pc = "next", !.nxt = NextVersion(@),
                                !.applied = Append(@, mig.nxt)]
       \/ Abort

\* SpecMigrate: calls of _migrate on a database at any version, with any
\* set of registered migrations, every step of a migration free to fail.
InitMigrate ==
    /\ InitOf({})
    /\ faults = 0
    /\ \E v \in 0..MaxVersion : db = [version |-> v, schema |-> SchemaAt(v)]
    /\ conn = NoConn
    /\ \E reg \in SUBSET (1..MaxVersion) :
            mig = [pc |-> "idle", registry |-> reg, target |-> 0, start |-> 0,
                   nxt |-> 0, part |-> 0, ran |-> <<>>, ret |-> "none",
                   applied |-> <<>>]
    /\ NoCalls

NextMigrate ==
    \/ \E target \in 0..MaxVersion : MigrateCall(target) /\ UNCHANGED <<syncVars, callVars>>
    \/ MigrateNext /\ UNCHANGED <<syncVars, callVars>>
    \/ MigrateBegin /\ UNCHANGED <<syncVars, callVars>>
    \/ MigrateBody /\ UNCHANGED <<syncVars, callVars>>
    \/ MigrateSetVersion /\ UNCHANGED <<syncVars, callVars>>
    \/ MigrateCommit /\ UNCHANGED <<syncVars, callVars>>

SpecMigrate == InitMigrate /\ [][NextMigrate]_vars

\* ---------------------------------------------------------- retry_on_locked
\* core/db.py, retry_on_locked(attempts, delay, backoff): the wrapper around
\* a function whose invocations return a value or raise.
\* Classes of the exceptions an invocation may raise: sqlite3.OperationalError,
\* another subclass of Exception, and a BaseException that is no Exception.
ExcTypes == {"OperationalError", "Exception", "BaseException"}

\* Messages of the exceptions, by the phrase they hold.
Msgs == {"database is locked", "database table is locked", "disk I/O error"}

\* The values the wrapped function returns (a row count).
Values == {0, 1}

Raised(t, m) == [kind |-> "raise", type |-> t, msg |-> m, value |-> 0]

Returned(v) == [kind |-> "return", type |-> "none", msg |-> "none", value |-> v]

\* All an invocation can end with.
Outcomes == {Returned(v) : v \in Values} \cup {Raised(t, m) : t \in ExcTypes, m \in Msgs}

\* `attempts` as the decorator is given it.
Attempts == (0 - 1)..MaxAttempts

\* A variant of the test below that goes by the message alone.
IsLockedErrorByText(exc) ==
    exc.msg \in {"database is locked", "database table is locked"}

\* is_locked_error, lines 53-60: an sqlite3.OperationalError whose message
\* holds "database is locked" or "database table is locked".
IsLockedError(exc) ==
    /\ exc.type = "OperationalError"
    /\ exc.msg \in {"database is locked", "database table is locked"}

\* Line 85: tries = max(1, int(attempts)).
Tries(n) == IF n > 1 THEN n ELSE 1

\* A variant of the test below that always sees another try ahead.
RetriesLeftAlways(i, tries) == TRUE

\* Line 93: i < tries - 1.
RetriesLeft(i, tries) == i < tries - 1

\* Lines 83-87: the wrapper is called.
RetryCall(n) ==
    /\ retry.pc = "idle"
    /\ retry' = [pc |-> "loop", attempts |-> n, tries |-> Tries(n), i |-> 0,
                 calls |-> 0, outcomes |-> <<>>, ret |-> NoOutcome]
    /\ UNCHANGED <<syncVars, migVars, cycle, txn>>

\* Lines 89-100: one pass of the loop.  The function is invoked; its value is
\* returned; after a locked error with tries left the wrapper sleeps and
\* goes round again; any other exception, and a locked error on the last
\* try, is raised again.  An exception that is no Exception passes the
\* handler by.  (Lines 101-103 follow a loop that never runs out: its last
\* pass returns or raises.)
RetryInvoke(o) ==
    /\ retry.pc = "loop"
    /\ retry.i < retry.tries
    /\ LET called == [retry EXCEPT !.calls = @ + 1, !.outcomes = Append(@, o)] IN
       retry' = IF o.kind = "raise" /\ o.type # "BaseException"
                    /\ IsLockedError(o) /\ RetriesLeft(retry.i, retry.tries)
                THEN [called EXCEPT !.i = @ + 1]
                ELSE [called EXCEPT !.pc = "idle", !.ret = o]
    /\ UNCHANGED <<syncVars, migVars, cycle, txn>>

\* SpecRetry: calls of a wrapped function with any `attempts`, every
\* invocation free to return or to raise anything; an invocation ends and
\* the sleep between two tries ends.
InitRetry ==
    /\ InitOf({})
    /\ faults = 0
    /\ NoMigration
    /\ NoCalls

NextRetry ==
    \/ \E n \in Attempts : RetryCall(n)
    \/ \E o \in Outcomes : RetryInvoke(o)

SpecRetry ==
    InitRetry /\ [][NextRetry]_vars /\ WF_vars(\E o \in Outcomes : RetryInvoke(o))

\* -------------------------------------------------------------- transaction
\* core/db.py, transaction(conn, begin_mode): the context manager around a
\* body of statements on the connection.
\* The begin_mode arguments followed: as written in the code, in another
\* spelling, empty, and one that is no mode of SQLite's BEGIN.
Modes == {"DEFERRED", "immediate", " Exclusive ", "", "SHARED"}

\* Line 141: begin_mode.strip().upper().
Normalise(mode) ==
    CASE mode = "immediate" -> "IMMEDIATE"
      [] mode = " Exclusive " -> "EXCLUSIVE"
      [] OTHER -> mode

\* A variant of the test below that lets every mode through to BEGIN.
ValidModeAny(mode) == TRUE

\* Line 142: the normalised mode is one of the three of BEGIN.
ValidMode(mode) == Normalise(mode) \in {"DEFERRED", "IMMEDIATE", "EXCLUSIVE"}

\* The rows the statements of a body insert; statement r of a body is kept
\* in the schema field of the database under key 0.
Rows == {1, 2, 3}

\* The exceptions a body raises: of a statement, of its own code, and one
\* that is no Exception.
BodyExceptions == {"IntegrityError", "RuntimeError", "KeyboardInterrupt"}

\* The rows of a sequence of statements, as they stand in the database.
RowsOf(stmts) == {<<0, stmts[i]>> : i \in 1..Len(stmts)}

\* Lines 141-145: the block is entered.  An invalid mode raises ValueError
\* before the try; BEGIN starts the transaction, or raises (always so inside
\* an open transaction) and lands in the handler.
TxnEnter(mode) ==
    /\ txn.pc = "idle"
    /\ LET entered == [pc |-> "idle", mode |-> mode, before |-> db, stmts |-> <<>>,
                       raised |-> "none", ret |-> "none"]
       IN  IF ~ValidMode(mode)
           THEN txn' = [entered EXCEPT !.ret = "ValueError"] /\ UNCHANGED conn
           ELSE \/ /\ ~conn.open
                   /\ conn' = Begin(db)
                   /\ txn' = [entered EXCEPT !.pc = "body", !.ret = "running"]
                \/ /\ txn' = [entered EXCEPT !.pc = "handler", !.ret = "running",
                                             !.raised = "OperationalError"]
                   /\ UNCHANGED conn
    /\ UNCHANGED <<syncVars, db, mig, cycle, retry>>

\* Line 146, the body: one more statement runs on the connection.
TxnStatement(r) ==
    /\ txn.pc = "body"
    /\ Len(txn.stmts) < MaxStmts
    /\ conn' = Apply(conn, 0, r)
    /\ txn' = [txn EXCEPT !.stmts = Append(@, r)]
    /\ UNCHANGED <<syncVars, db, mig, cycle, retry>>

\* Line 146, the body raises: the exception is thrown into the generator at
\* the yield and caught by the bare except of line 148.
TxnBodyRaises(e) ==
    /\ txn.pc = "body"
    /\ txn' = [txn EXCEPT !.pc = "handler", !.raised = e]
    /\ UNCHANGED <<syncVars, migVars, cycle, retry>>

\* Line 147: the body is over; conn.commit(), which may raise.
TxnCommit ==
    /\ txn.pc = "body"
    /\ \/ /\ db' = Commit(db, conn)
          /\ conn' = NoConn
          /\ txn' = [txn EXCEPT !.pc = "idle", !.ret = "exited"]
       \/ /\ txn' = [txn EXCEPT !.pc = "handler", !.raised = "OperationalError"]
          /\ UNCHANGED <<db, conn>>
    /\ UNCHANGED <<syncVars, mig, cycle, retry>>

\* Lines 148-150: conn.rollback(), and the exception is raised again.
TxnHandler ==
    /\ txn.pc = "handler"
    /\ db' = Rollback(db, conn)
    /\ conn' = NoConn
    /\ txn' = [txn EXCEPT !.pc = "idle", !.ret = txn.raised]
    /\ UNCHANGED <<syncVars, mig, cycle, retry>>

\* A statement outside any block: the connection opens a transaction of its
\* own for it, which stays open.
StatementOutside(r) ==
    /\ txn.pc = "idle"
    /\ <<0, r>> \notin conn.schema
    /\ conn' = Apply(IF conn.open THEN conn ELSE Begin(db), 0, r)
    /\ UNCHANGED <<syncVars, db, mig, cycle, retry, txn>>

\* SpecTxn: transaction blocks on one connection, with every begin mode,
\* bodies of up to MaxStmts statements that may raise, commits that may
\* fail, and statements between the blocks.
InitTxn ==
    /\ InitOf({})
    /\ faults = 0
    /\ NoMigration
    /\ NoCalls

NextTxn ==
    \/ \E mode \in Modes : TxnEnter(mode)
    \/ \E r \in Rows : TxnStatement(r)
    \/ \E e \in BodyExceptions : TxnBodyRaises(e)
    \/ TxnCommit
    \/ TxnHandler
    \/ \E r \in Rows : StatementOutside(r)

SpecTxn == InitTxn /\ [][NextTxn]_vars

\* --------------------------------------------------------------- sync cycle
\* core/sync_cycle.py: sync_before_db_use and sync_after_db_use, each calling
\* the operations above for client c.
\* SCHEMA_VERSION of core/db.py, the target of ensure_schema.
SCHEMA_VERSION == 1

\* The keys of MIGRATIONS (db.py line 304).
MIGRATIONS == {1}

\* What a call gives back by `return`; every other value of `ret` is the
\* exception it raised.
Returns == {"True", "False", "None"}

\* A variant of the handler below that logs the exception of pull_if_newer
\* and goes on.
PullRaisedIgnored(ret) == FALSE

\* Lines 49-56: the exception of pull_if_newer is logged and re-raised.
PullRaised(ret) == ret \notin Returns

\* A variant of the handler below that reports an exception of push_with_rev
\* as an upload that was not performed.
AfterResultNoRaise(ret) == IF ret \in Returns THEN ret ELSE "False"

\* Lines 89-101: sync_after_db_use returns what push_with_rev returned and
\* re-raises what it raised.
AfterResult(ret) == ret

\* Lines 45-50: sync_before_db_use calls pull_if_newer.
SyncBeforeCall(c) ==
    /\ cycle.pc = "idle"
    /\ PullBegin(c)
    /\ cycle' = [op |-> "before", pc |-> "pull", steps |-> <<"pull_if_newer">>,
                 pulled |-> "none", ret |-> "running"]
    /\ UNCHANGED <<made, migVars, retry, txn>>

\* Lines 50-56: pull_if_newer has ended; its exception leaves
\* sync_before_db_use, its value goes into `updated`.  A download has put
\* the database of the remote object, at whatever schema version it is, in
\* the place of the local one.
SyncBeforePulled(c) ==
    /\ cycle.pc = "pull" /\ pc[c] = "idle"
    /\ IF PullRaised(result[c].ret)
       THEN /\ cycle' = [cycle EXCEPT !.pc = "idle", !.ret = result[c].ret]
            /\ UNCHANGED db
       ELSE /\ cycle' = [cycle EXCEPT !.pc = "db_ready", !.pulled = result[c].ret]
            /\ IF result[c].ret = "True"
               THEN \E v \in 0..MaxVersion : db' = [version |-> v, schema |-> SchemaAt(v)]
               ELSE UNCHANGED db
    /\ UNCHANGED <<syncVars, conn, mig, retry, txn>>

\* Line 59 and db.py lines 152-168: ensure_db_ready(touch=True) opens the
\* local database, creating the file when it is not there, and pings it; a
\* sqlite3.Error is raised as RuntimeError.
SyncBeforeDbReady(c) ==
    /\ cycle.pc = "db_ready"
    /\ \/ /\ cycle' = [cycle EXCEPT !.pc = "schema", !.steps = Append(@, "ensure_db_ready")]
          /\ IF local[c].exists
             THEN UNCHANGED local
             ELSE \E data \in Contents :
                    local' = [local EXCEPT ![c] =
                                [exists |-> TRUE, content |-> data, mtime |-> clock]]
          /\ UNCHANGED faults
       \/ /\ Within(1)
          /\ faults' = faults + 1
          /\ cycle' = [cycle EXCEPT !.pc = "idle", !.ret = "RuntimeError",
                                    !.steps = Append(@, "ensure_db_ready")]
          /\ UNCHANGED local
    /\ UNCHANGED <<remote, nextRev, clock, revFile, hashFile, backupDir, pc, curRev,
                   curHash, info, md, result, trace, pre, made, migVars, retry, txn>>

\* Line 62 and db.py lines 336-344: ensure_schema calls
\* _migrate(conn, SCHEMA_VERSION) with the registered migrations.
SyncBeforeSchema ==
    /\ cycle.pc = "schema"
    /\ mig.registry = MIGRATIONS
    /\ MigrateCall(SCHEMA_VERSION)
    /\ cycle' = [cycle EXCEPT !.pc = "migrating", !.steps = Append(@, "ensure_schema")]
    /\ UNCHANGED <<syncVars, retry, txn>>

\* Lines 62-69: ensure_schema has ended; its exception leaves
\* sync_before_db_use, which otherwise returns None.
SyncBeforeReturn ==
    /\ cycle.pc = "migrating" /\ mig.pc = "idle"
    /\ cycle' = [cycle EXCEPT !.pc = "idle",
                              !.ret = IF mig.ret = "returned" THEN "None" ELSE mig.ret]
    /\ UNCHANGED <<syncVars, migVars, retry, txn>>

\* Lines 86-90: sync_after_db_use calls push_with_rev.
SyncAfterCall(c) ==
    /\ cycle.pc = "idle"
    /\ PushBegin(c)
    /\ cycle' = [op |-> "after", pc |-> "push", steps |-> <<"push_with_rev">>,
                 pulled |-> "none", ret |-> "running"]
    /\ UNCHANGED <<made, migVars, retry, txn>>

\* Lines 90-101: push_with_rev has ended.
SyncAfterReturn(c) ==
    /\ cycle.pc = "push" /\ pc[c] = "idle"
    /\ cycle' = [cycle EXCEPT !.pc = "idle", !.ret = AfterResult(result[c].ret)]
    /\ UNCHANGED <<syncVars, migVars, retry, txn>>

\* SpecCycle: one client going through sync_before_db_use and
\* sync_after_db_use, with failures, other writers of the remote object, and
\* a local database at any schema version.
InitCycle ==
    /\ InitOf(Observed)
    /\ faults = 0
    /\ \E v \in 0..MaxVersion : db = [version |-> v, schema |-> SchemaAt(v)]
    /\ conn = NoConn
    /\ mig = [pc |-> "idle", registry |-> MIGRATIONS, target |-> 0, start |-> 0,
              nxt |-> 0, part |-> 0, ran |-> <<>>, ret |-> "none", applied |-> <<>>]
    /\ NoCalls

NextCycle ==
    \/ \E c \in Observed : SyncBeforeCall(c)
    \/ \E c \in Observed : PullDownload(c) /\ UNCHANGED <<made, migVars, callVars>>
    \/ \E c \in Observed : SyncBeforePulled(c)
    \/ \E c \in Observed : SyncBeforeDbReady(c)
    \/ SyncBeforeSchema
    \/ MigrateNext /\ UNCHANGED <<syncVars, callVars>>
    \/ MigrateBegin /\ UNCHANGED <<syncVars, callVars>>
    \/ MigrateBody /\ UNCHANGED <<syncVars, callVars>>
    \/ MigrateSetVersion /\ UNCHANGED <<syncVars, callVars>>
    \/ MigrateCommit /\ UNCHANGED <<syncVars, callVars>>
    \/ SyncBeforeReturn
    \/ \E c \in Observed : SyncAfterCall(c)
    \/ \E c \in Observed : PushProbe(c) /\ UNCHANGED <<made, migVars, callVars>>
    \/ \E c \in Observed : PushAdd(c) /\ UNCHANGED <<made, migVars, callVars>>
    \/ \E c \in Observed : PushUpdate(c) /\ UNCHANGED <<made, migVars, callVars>>
    \/ \E c \in Observed : SyncAfterReturn(c)
    \/ \E data \in Contents : ExternalWrite(data) /\ UNCHANGED <<made, migVars, callVars>>

SpecCycle == InitCycle /\ [][NextCycle]_vars

\* ------------------------------------------------------------ execute_write
\* Line 107: @retry_on_locked(attempts=4, delay=0.2, backoff=1.8).
WriteAttempts == 4

\* The exceptions conn.execute (line 123) and conn.commit (line 124) raise.
WriteErrors ==
    {Raised("OperationalError", m) : m \in {"database is locked", "disk I/O error"}}

\* How one invocation of execute_write ends: conn.execute raises, or the
\* statement runs and conn.commit raises, or the row count is returned.
WriteOutcomes ==
    {[at |-> a, exc |-> e] : a \in {"execute", "commit"}, e \in WriteErrors}
        \cup {[at |-> "return", exc |-> Returned(1)]}

\* Line 123, conn.execute(sql, params) that raises: the connection has begun
\* a transaction for the statement when none was open, and the statement
\* that failed has left nothing in it.
ExecuteFailed(d, c) == IF c.open THEN c ELSE Begin(d)

\* Line 123, conn.execute(sql, params) of an INSERT: one more row, under the
\* next row id, in the transaction of the connection.
Executed(d, c) ==
    LET t == ExecuteFailed(d, c) IN Apply(t, 0, Cardinality(t.schema) + 1)

\* Lines 83-87: execute_write is called on a connection just opened
\* (`with connect_db() as conn`).
WriteCall ==
    /\ retry.pc = "idle"
    /\ ~conn.open
    /\ Cardinality(db.schema) < MaxRows
    /\ retry' = [pc |-> "loop", attempts |-> WriteAttempts, tries |-> Tries(WriteAttempts),
                 i |-> 0, calls |-> 0, outcomes |-> <<>>, ret |-> NoOutcome]
    /\ UNCHANGED <<syncVars, migVars, cycle, txn>>

\* Lines 89-100 around lines 121-126: one invocation of execute_write by the
\* wrapper.  A commit that raises leaves the transaction open with the
\* statement in it; the wrapper goes round after a locked error with tries
\* left and raises otherwise.
WriteInvoke(w) ==
    /\ retry.pc = "loop"
    /\ retry.i < retry.tries
    /\ LET called == [retry EXCEPT !.calls = @ + 1, !.outcomes = Append(@, w.exc)] IN
       retry' = IF w.exc.kind = "raise" /\ w.exc.type # "BaseException"
                    /\ IsLockedError(w.exc) /\ RetriesLeft(retry.i, retry.tries)
                THEN [called EXCEPT !.i = @ + 1]
                ELSE [called EXCEPT !.pc = "idle", !.ret = w.exc]
    /\ conn' = IF w.at = "execute" THEN ExecuteFailed(db, conn)
               ELSE IF w.at = "commit" THEN Executed(db, conn)
               ELSE NoConn
    /\ db' = IF w.at = "return" THEN Commit(db, Executed(db, conn)) ELSE db
    /\ UNCHANGED <<syncVars, mig, cycle, txn>>

\* The `with connect_db() as conn` block of the caller is left by the
\* exception: the connection rolls back.
WriteAbandoned ==
    /\ retry.pc = "idle"
    /\ conn.open
    /\ db' = Rollback(db, conn)
    /\ conn' = NoConn
    /\ UNCHANGED <<syncVars, mig, cycle, retry, txn>>

\* SpecWrite: calls of execute_write, each on a connection of its own, every
\* invocation free to fail at the statement or at the commit.
InitWrite ==
    /\ InitOf({})
    /\ faults = 0
    /\ NoMigration
    /\ NoCalls

NextWrite ==
    \/ WriteCall
    \/ \E w \in WriteOutcomes : WriteInvoke(w)
    \/ WriteAbandoned

SpecWrite == InitWrite /\ [][NextWrite]_vars

\* ------------------------------------------------------------------ claims
Last(t) == t[Len(t)]

Has(t, e) == \E i \in 1..Len(t) : t[i] = e

\* Client c takes a step.
Moves(c) == pc'[c] # pc[c] \/ result'[c] # result[c] \/ trace'[c] # trace[c]

\* Client c is idle after a call of `op` that ended with `ret`.
Done(c, op, ret) == pc[c] = "idle" /\ result[c] = [op |-> op, ret |-> ret]

\* Client c calls push_with_rev / pull_if_newer.
BeginsPush(c) == pc[c] = "idle" /\ Moves(c) /\ result'[c].op = "push"

BeginsPull(c) == pc[c] = "idle" /\ Moves(c) /\ result'[c].op = "pull"

\* Client c's push probes the remote and the probe answers.
ProbeStep(c) ==
    pc[c] = "push_probe" /\ pc'[c] # "push_probe" /\ Last(trace'[c]) # "probe_error"

\* Client c's push gets the store's answer to its upload.
UploadStep(c) ==
    pc[c] \in {"push_add", "push_update"} /\ pc'[c] # pc[c]
        /\ Last(trace'[c]) # "upload_failed"

\* The conflicted copy of c's local file, <stem>_conflicted_<timestamp><suffix>.
ConflictedCopyOf(c) ==
    [kind |-> "conflicted", ts |-> clock, mtime |-> local[c].mtime,
     content |-> local[c].content]

\* C1: an existing remote object changes only in the step of a client's
\* conditional upload whose expected revision, the client's sidecar
\* revision, is the object's revision at that moment, and it takes that
\* client's bytes; no other step of a push or pull changes it.
C1_ReplacedOnlyByMatchingUpdate ==
    [][(remote.exists /\ remote' # remote) =>
        \E c \in Clients :
            /\ pc[c] = "push_update" /\ pc'[c] = "idle"
            /\ curRev[c] = remote.rev
            /\ curRev[c] = ReadSidecar(revFile[c])
            /\ remote'.exists /\ remote'.content = local[c].content
            /\ \A d \in Clients \ {c} : ~Moves(d)]_vars

\* Witness of C1: of two clients racing, one has replaced the object and the
\* store has rejected the other's upload.
C1_Witness ==
    \E c, d \in Clients :
        /\ c # d
        /\ Done(c, "push", "True") /\ Has(trace[c], "upload_update")
        /\ Done(d, "push", "False") /\ Has(trace[d], "upload_rejected")

\* C2: a push whose probe finds the remote object at a revision other than
\* the sidecar revision returns False, and no step of it changes the object.
C2_DivergedRefused ==
    [][\A c \in Observed :
        /\ (BeginsPush(c) => remote' = remote)
        /\ (ProbeStep(c) /\ remote.exists /\ curRev[c] # remote.rev
                /\ curRev[c] = ReadSidecar(revFile[c])
            => /\ pc'[c] = "idle"
               /\ result'[c] = [op |-> "push", ret |-> "False"]
               /\ remote' = remote)]_vars

\* Witness of C2: a push has been refused at the probe, its sidecar revision differing
\* from the revision of the remote object.
C2_Witness ==
    \E c \in Observed :
        /\ Done(c, "push", "False") /\ Has(trace[c], "rev_diverged")
        /\ remote.exists /\ revFile[c].kind = "text" /\ revFile[c].text # remote.rev

ConflictStep(c) ==
    \/ ProbeStep(c) /\ remote.exists /\ curRev[c] # None /\ curRev[c] # remote.rev
    \/ UploadStep(c) /\ pc[c] = "push_update"
            /\ ~(remote.exists /\ remote.rev = curRev[c])

C6_TrueMeansSidecarsWritten ==
    [][\A c \in Observed :
        (UploadStep(c) /\ result'[c].ret = "True")
        => /\ revFile'[c] = TextFile(md'[c].rev)
           /\ hashFile'[c] = TextFile(md'[c].hash)]_vars

\* C7: a push without a local file raises FileNotFoundError at once: no
\* backup, no probe, no upload, the sidecars untouched.
C7_LocalMissingRaisesFirst ==
    [][\A c \in Observed :
        (BeginsPush(c) /\ ~local[c].exists)
        => /\ result'[c] = [op |-> "push", ret |-> "FileNotFoundError"]
           /\ pc'[c] = "idle"
           /\ trace'[c] = <<"local_missing">>
           /\ UNCHANGED <<remote, nextRev, local, revFile, hashFile, backupDir,
                          faults>>]_vars

\* Witness of C7: a push without a local file has raised FileNotFoundError, the backup
\* directory still empty.
C7_Witness ==
    \E c \in Observed :
        /\ Done(c, "push", "FileNotFoundError")
        /\ ~local[c].exists /\ backupDir[c] = {}

\* C8: what a push does after its backup step is the same whether the
\* backup succeeded or failed: it goes on to the probe with the sidecars
\* read, and then uploads or refuses by the sidecar revision and the remote
\* object alone.
C8_BackupFailureDoesNotDecide ==
    [][\A c \in Observed :
        /\ (BeginsPush(c) /\ local[c].exists
            => /\ pc'[c] = "push_probe"
               /\ result'[c] = [op |-> "push", ret |-> "running"]
               /\ curRev'[c] = ReadSidecar(revFile[c])
               /\ UNCHANGED <<remote, nextRev, local, revFile, hashFile>>)
        /\ (ProbeStep(c)
            => IF ~remote.exists THEN pc'[c] = "push_add"
               ELSE IF curRev[c] = remote.rev THEN pc'[c] = "push_update"
               ELSE result'[c].ret = "False" /\ remote' = remote)
        /\ (UploadStep(c)
            => IF (pc[c] = "push_add" /\ ~remote.exists)
                    \/ (pc[c] = "push_update" /\ remote.exists /\ remote.rev = curRev[c])
               THEN result'[c].ret = "True" /\ remote'.content = local[c].content
               ELSE /\ remote' = remote
                    /\ result'[c].ret =
                        (IF pc[c] = "push_add" THEN "RuntimeError" ELSE "False"))]_vars

\* Witness of C8: a push whose backup failed has uploaded.
C8_Witness ==
    \E c \in Observed :
        /\ Done(c, "push", "True")
        /\ trace[c][1] = "backup_failed" /\ Has(trace[c], "upload_update")
        /\ remote.content = local[c].content

\* The local copy of c is current with respect to the remote object.
Current(c) ==
    /\ local[c].exists
    /\ revFile[c] = TextFile(remote.rev)
    /\ hashFile[c] = TextFile(ContentHash(remote.content))

\* C9: a pull whose probe answers returns False, without downloading,
\* exactly when the remote is absent or the local file exists and both
\* sidecars equal the remote revision and hash; otherwise it goes on to the
\* download, which puts the remote bytes into the local file and returns True.
C9_PullDecision ==
    [][\A c \in Observed :
        /\ (BeginsPull(c) /\ Last(trace'[c]) # "probe_error"
            => IF ~remote.exists \/ Current(c)
               THEN /\ result'[c].ret = "False" /\ pc'[c] = "idle"
                    /\ local' = local /\ revFile' = revFile /\ hashFile' = hashFile
               ELSE /\ pc'[c] = "pull_download" /\ result'[c].ret = "running")
        /\ (pc[c] = "pull_download" /\ pc'[c] = "idle"
                /\ Last(trace'[c]) # "download_failed"
            => /\ result'[c] = [op |-> "pull", ret |-> "True"]
               /\ local'[c].exists /\ local'[c].content = remote.content)]_vars

\* Witness of C9: a pull over sidecars of an older revision has downloaded and rewritten
\* the revision sidecar.
C9_Witness ==
    \E c \in Observed :
        /\ Done(c, "pull", "True") /\ Has(trace[c], "download")
        /\ pre[c].rev.kind = "text" /\ pre[c].hash.kind = "text"
        /\ pre[c].rev # revFile[c]

\* C10 as claimed: after a pull that returns True, the sidecars hold the
\* revision and hash of the version the download put into the local file
\* (here for the pulls whose sidecar writes both succeed).
C10_SidecarsDescribeDownload ==
    [][\A c \in Observed :
        (pc[c] = "pull_download" /\ result'[c].ret = "True" /\ faults' = faults)
        => /\ revFile'[c] = TextFile(md'[c].rev)
           /\ hashFile'[c] = TextFile(md'[c].hash)
           /\ md'[c].hash = ContentHash(local'[c].content)]_vars

\* C11 as claimed: a pull whose download fails raises an error and leaves the
\* local database file and both sidecars exactly as they were.
C11_FailedDownloadLeavesLocal ==
    [][\A c \in Observed :
        (pc[c] = "pull_download" /\ Last(trace'[c]) = "download_failed")
        => /\ result'[c].ret \in {"RuntimeError", "TransferError"}
           /\ local'[c] = local[c]
           /\ revFile'[c] = revFile[c] /\ hashFile'[c] = hashFile[c]]_vars

\* C12 as claimed: a pull that directly follows a pull that downloaded, the
\* remote object still being the version that was downloaded and nothing
\* having failed, returns False and downloads nothing.
C12_SecondPullReturnsFalse ==
    [][\A c \in Observed :
        (BeginsPull(c) /\ result[c] = [op |-> "pull", ret |-> "True"]
            /\ remote.exists /\ md[c].rev = remote.rev
            /\ faults = 0 /\ faults' = 0)
        => /\ result'[c] = [op |-> "pull", ret |-> "False"]
           /\ pc'[c] = "idle"
           /\ local' = local]_vars

\* C13: a call of pull_if_newer or push_with_rev that ends otherwise than by
\* returning True (it returns False or raises) leaves the revision sidecar
\* and the hash sidecar as they were when it started.
C13_SidecarsChangeOnlyOnSuccess ==
    [][\A c \in Observed :
        (Moves(c) /\ pc'[c] = "idle" /\ result'[c].ret # "True")
        => /\ revFile'[c] = pre'[c].rev
           /\ hashFile'[c] = pre'[c].hash]_vars

\* Witness of C13: a push has been refused with a conflicted copy, or a
\* pull's download has failed, and the sidecars written by an earlier
\* synchronisation are still in place.
C13_Witness ==
    \E c \in Observed :
        /\ pc[c] = "idle" /\ result[c].ret \in {"False", "RuntimeError", "TransferError"}
        /\ Last(trace[c]) \in {"conflicted_copy", "download_failed"}
        /\ revFile[c].kind = "text" /\ hashFile[c].kind = "text"
        /\ revFile[c] = pre[c].rev /\ hashFile[c] = pre[c].hash

\* The ordinary backups of client c, by name (timestamp).
BackupNames(c) == {f.ts : f \in Ordinary(backupDir[c])}

\* The timestamps of the last n backups client c made.
LastMade(c, n) == {made[c][i] : i \in {j \in 1..Len(made[c]) : j > Len(made[c]) - n}}

\* The backups of client c were made at different seconds.
MadeApart(c) == \A i, j \in 1..Len(made[c]) : i # j => made[c][i] # made[c][j]

\* C14 as claimed: after MAX_BACKUPS + 2 successful backups of one database
\* file (here made at different seconds, so that each has a file name of its
\* own), exactly MAX_BACKUPS ordinary backups remain and they are the
\* MAX_BACKUPS most recently created.
C14_KeepsNewestBackups ==
    \A c \in Observed :
        (Len(made[c]) = MAX_BACKUPS + 2 /\ MadeApart(c))
        => /\ Cardinality(Ordinary(backupDir[c])) = MAX_BACKUPS
           /\ BackupNames(c) = LastMade(c, MAX_BACKUPS)

Min(a, b) == IF a < b THEN a ELSE b

\* The backup step of a push of client c has made its backup.
BackupStep(c) == pc[c] = "idle" /\ pc'[c] = "push_probe" /\ trace'[c][1] = "backup"

\* C15: no step of a push removes a conflicted copy from the backup
\* directory (a copy is replaced only by the conflicted copy of the same
\* second, which has its name), and the ordinary backups a backup step
\* leaves are MAX_BACKUPS or all of them, however many conflicted copies
\* there are.
C15_ConflictedCopiesExempt ==
    [][\A c \in Observed :
        /\ \A f \in backupDir[c] :
                f.kind = "conflicted"
                => \/ f \in backupDir'[c]
                   \/ /\ Last(trace'[c]) = "conflicted_copy" /\ f.ts = clock
                      /\ \E g \in backupDir'[c] : g.kind = "conflicted" /\ g.ts = f.ts
        /\ BackupStep(c)
            => Cardinality(Ordinary(backupDir'[c])) =
                    Min(MAX_BACKUPS, Cardinality(BackupNames(c) \cup {clock}))]_vars

\* Witness of C15: a conflicted copy is in the backup directory after the
\* rotation has removed ordinary backups made after it.
C15_Witness ==
    \E c \in Observed :
        \E f \in backupDir[c] :
            /\ f.kind = "conflicted"
            /\ Cardinality(LastMade(c, Len(made[c]))) > MAX_BACKUPS
            /\ Cardinality({t \in LastMade(c, Len(made[c])) : t > f.ts}) > MAX_BACKUPS
            /\ Cardinality(Ordinary(backupDir[c])) = MAX_BACKUPS

\* C16 as claimed: probe_remote returns None only when the lookup reports
\* that nothing is at the path or that what is there is not a file; any
\* other failure of the lookup is raised.
C16_NoneOnlyForNotFound ==
    \A c \in Clients :
        result[c].op = "probe"
        => /\ (result[c].ret = "None" => md[c].kind \in {"not_found", "folder"})
           /\ (md[c].kind \in {"path_other", "error", "transport"}
                    => result[c].ret \in {"RuntimeError", "TransferError"})

\* The exception of a statement, of the version update or of the commit of
\* migration step mig.nxt leaves _migrate.
StepRaises ==
    mig.pc \in {"body", "set_version", "commit"} /\ mig'.pc = "idle" /\ mig'.ret = "Error"

\* C17: when migration step k raises partway, the persisted version is k-1
\* afterwards, the database shows none of the changes of migration k, and
\* _migrate has ended, k being the last migration it ran.
C17_FailedStepRolledBack ==
    [][StepRaises
        => LET k == mig.nxt IN
           /\ db'.version = k - 1
           /\ db'.schema \cap ({k} \X Parts) = {}
           /\ db' = db
           /\ ~conn'.open
           /\ mig'.ran = mig.ran /\ Last(mig'.ran) = k
           /\ \A i \in 1..Len(mig'.ran) : mig'.ran[i] <= k]_vars

\* Witness of C17: a step has raised after its first statement, an earlier
\* step of the call being committed and later ones still due.
C17_Witness ==
    /\ mig.pc = "idle" /\ mig.ret = "Error"
    /\ Len(mig.ran) >= 2 /\ mig.part = LastPart
    /\ db.version = Last(mig.ran) - 1
    /\ db.schema = SchemaAt(db.version)
    /\ mig.target > Last(mig.ran)

\* The versions from a + 1 to b, in order.
Upto(a, b) == [i \in 1..(IF b > a THEN b - a ELSE 0) |-> a + i]

\* C18: when every step succeeds, _migrate from version current < target
\* runs the migrations current+1 .. target in that order, each once; the
\* persisted version changes only at a commit, by exactly 1, to the version
\* of the step; at the return it is the target.
C18_StepsInOrder ==
    [][/\ db'.version # db.version
            => /\ mig.pc = "commit"
               /\ db'.version = db.version + 1
               /\ db'.version = mig.nxt
               /\ Last(mig.ran) = mig.nxt
       /\ (mig.pc # "idle" /\ mig'.pc = "idle" /\ mig'.ret = "returned")
            => /\ mig'.ran = Upto(mig'.start, mig'.target)
               /\ db'.version = mig'.target
               /\ db'.schema = SchemaAt(mig'.target)]_vars

\* Witness of C18: _migrate has returned after more than one step.
C18_Witness ==
    /\ mig.pc = "idle" /\ mig.ret = "returned"
    /\ mig.start + 2 <= mig.target
    /\ mig.ran = Upto(mig.start, mig.target)
    /\ db.version = mig.target

\* C19: _migrate on a database whose persisted version is greater than the
\* target raises RuntimeError, runs no migration and leaves the version and
\* the schema as they are.
C19_FutureVersionRefused ==
    [][(mig.pc = "idle" /\ mig' # mig /\ db.version > mig'.target)
        => /\ mig'.pc = "idle" /\ mig'.ret = "RuntimeError"
           /\ mig'.ran = <<>>
           /\ db' = db /\ conn' = conn]_vars

\* Witness of C19: _migrate has refused a database ahead of its target.
C19_Witness ==
    /\ mig.pc = "idle" /\ mig.ret = "RuntimeError"
    /\ mig.start > mig.target /\ mig.ran = <<>>
    /\ db.version = mig.start

\* The versions of the current call that have no registered migration.
Missing == {v \in 1..MaxVersion : mig.start < v /\ v <= mig.target /\ v \notin mig.registry}

\* C20: when a version v between current+1 and target has no registered
\* migration, _migrate never sets the persisted version to v or above and
\* runs no migration from v on; at v it raises RuntimeError, the persisted
\* version being v-1.
C20_MissingMigrationStops ==
    [][/\ \A v \in Missing' :
                /\ mig'.ret # "returned"
                /\ db'.version < v
                /\ \A i \in 1..Len(mig'.ran) : mig'.ran[i] < v
       /\ (mig.pc = "next" /\ mig.nxt \in Missing)
            => /\ mig'.pc = "idle" /\ mig'.ret = "RuntimeError"
               /\ db' = db /\ db.version = mig.nxt - 1]_vars

\* Witness of C20: _migrate has raised at a version without migration after
\* committing the steps below it.
C20_Witness ==
    /\ mig.pc = "idle" /\ mig.ret = "RuntimeError"
    /\ Len(mig.ran) >= 1
    /\ Last(mig.ran) + 1 \in Missing
    /\ db.version = Last(mig.ran)
    /\ mig.nxt = db.version + 1

\* C21: over any sequence of calls of _migrate on one database, whatever
\* their targets and whether they return or raise, no step lowers the
\* persisted schema version.
C21_VersionNeverDecreases ==
    [][db'.version >= db.version]_vars

\* Witness of C21: after a call that committed migrations, a later call has
\* started from the version they left and has raised inside its first step.
C21_Witness ==
    /\ mig.pc = "idle" /\ mig.ret = "Error"
    /\ Len(mig.applied) >= 1 /\ mig.start = Last(mig.applied)
    /\ mig.ran = <<mig.start + 1>>
    /\ db.version = mig.start

\* C22: a call of _migrate on a database whose persisted version is the
\* target returns at once: no migration run, no transaction, the database
\* as it was; and over all calls no migration is committed twice.
C22_NoOpAtTarget ==
    [][/\ (mig.pc = "idle" /\ mig' # mig /\ db.version = mig'.target)
            => /\ mig'.pc = "idle" /\ mig'.ret = "returned"
               /\ mig'.ran = <<>> /\ mig'.applied = mig.applied
               /\ db' = db /\ conn' = conn
       /\ \A i, j \in 1..Len(mig'.applied) :
            i # j => mig'.applied[i] # mig'.applied[j]]_vars

\* Witness of C22: a call that committed two migrations has been followed
\* by a call with the same target, which returned without running any.
C22_Witness ==
    /\ mig.pc = "idle" /\ mig.ret = "returned" /\ mig.ran = <<>>
    /\ Len(mig.applied) >= 2
    /\ mig.target = Last(mig.applied) /\ db.version = mig.target

\* The steps of sync_before_db_use, in the order of lines 50, 59 and 62.
BeforeOrder == <<"pull_if_newer", "ensure_db_ready", "ensure_schema">>

IsPrefix(t, u) == Len(t) <= Len(u) /\ \A i \in 1..Len(t) : t[i] = u[i]

\* C23: the steps sync_before_db_use has begun are always a prefix of
\* pull_if_newer, ensure_db_ready, ensure_schema; the database is opened
\* and migrated only in the third step; and when pull_if_newer raises, the
\* call ends there with that exception, ensure_db_ready and ensure_schema
\* not begun, the local file and the database as pull_if_newer left them.
C23_BeforeUseInOrder ==
    [][\A c \in Observed :
        /\ cycle'.op = "before"
            => /\ IsPrefix(cycle'.steps, BeforeOrder) /\ Len(cycle'.steps) >= 1
               /\ Len(cycle'.steps) >= 2
                    => cycle'.pulled \in {"True", "False"}
                        /\ result'[c] = [op |-> "pull", ret |-> cycle'.pulled]
        /\ (mig' # mig \/ conn' # conn)
            => cycle'.op = "before" /\ cycle'.steps = BeforeOrder
        /\ (cycle.pc = "pull" /\ cycle'.pc # "pull" /\ result[c].ret \notin Returns)
            => /\ cycle'.pc = "idle" /\ cycle'.ret = result[c].ret
               /\ cycle'.steps = <<"pull_if_newer">>
               /\ UNCHANGED <<local, db, conn, mig>>]_vars

\* Witness of C23: sync_before_db_use has returned after a download, the
\* ping and a migration of the downloaded database.
C23_Witness ==
    /\ cycle.op = "before" /\ cycle.pc = "idle" /\ cycle.ret = "None"
    /\ cycle.steps = BeforeOrder /\ cycle.pulled = "True"
    /\ mig.ran = <<SCHEMA_VERSION>> /\ db.version = SCHEMA_VERSION

\* What the last call of push_with_rev or pull_if_newer by client c met.
Met(c, events) == \E i \in 1..Len(trace[c]) : trace[c][i] \in events

C25_FreshThenUpdates ==
    [][\A c \in Observed :
        /\ ProbeStep(c)
            => IF Len(made[c]) = 1
               THEN ~remote.exists /\ pc'[c] = "push_add"
               ELSE /\ remote.exists /\ pc'[c] = "push_update"
                    /\ curRev[c] = remote.rev /\ curRev[c] = ReadSidecar(revFile[c])
        /\ UploadStep(c)
            => /\ result'[c] = [op |-> "push", ret |-> "True"]
               /\ remote'.exists /\ remote'.content = local[c].content
               /\ pc[c] = "push_add" <=> ~remote.exists
               /\ revFile'[c] = TextFile(remote'.rev)
        /\ (result'[c].op = "push" /\ pc'[c] = "idle") => result'[c].ret = "True"]_vars

\* Witness of C25: the third push of the client has returned True as a
\* conditional update of the object its first push created.
C25_Witness ==
    \E c \in Observed :
        /\ Len(made[c]) = 3 /\ Done(c, "push", "True")
        /\ Has(trace[c], "upload_update")
        /\ remote.exists /\ revFile[c] = TextFile(remote.rev)

Locked(o) ==
    /\ o.kind = "raise" /\ o.type = "OperationalError"
    /\ o.msg \in {"database is locked", "database table is locked"}

\* C27: the wrapper invokes the function again only after an invocation that
\* raised a locked error; an invocation that raises anything else ends the
\* call with that exception, the function invoked no further; so every
\* invocation but the last of a call raised a locked error.
C27_RetriesOnlyWhenLocked ==
    [][/\ (retry.pc = "loop" /\ retry'.calls = retry.calls + 1)
            => LET o == Last(retry'.outcomes) IN
               /\ retry'.pc = "loop" => Locked(o)
               /\ (o.kind = "raise" /\ ~Locked(o))
                    => retry'.pc = "idle" /\ retry'.ret = o
       /\ \A k \in 1..(Len(retry'.outcomes) - 1) : Locked(retry'.outcomes[k])
       /\ retry'.calls = Len(retry'.outcomes)
       /\ retry.pc = "idle" => retry'.calls = 0]_vars

\* Witness of C27: after a locked error and a retry, an exception that is not
\* an sqlite3.OperationalError but speaks of a locked database has ended the
\* call at once, tries being left.
C27_Witness ==
    /\ retry.pc = "idle" /\ retry.calls = 2 /\ retry.tries > 2
    /\ Locked(retry.outcomes[1])
    /\ retry.ret = Raised("Exception", "database is locked")

\* C28: a call of the wrapper invokes the function at most max(1, attempts)
\* times and ends; it returns the value of the invocation that returned;
\* when all its invocations raised locked errors there were max(1, attempts)
\* of them and the call raises the last one's error.
C28_BoundedAndEnds ==
    /\ [][LET most == IF retry'.attempts > 1 THEN retry'.attempts ELSE 1 IN
          /\ retry'.calls <= most
          /\ (retry.pc = "loop" /\ retry'.pc = "idle")
                => /\ retry'.ret = Last(retry'.outcomes)
                   /\ (\A k \in 1..Len(retry'.outcomes) : Locked(retry'.outcomes[k]))
                        => retry'.calls = most /\ retry'.ret.kind = "raise"
          /\ (retry.pc = "loop" /\ Last(retry'.outcomes).kind = "return")
                => retry'.pc = "idle" /\ retry'.ret = Last(retry'.outcomes)]_vars
    /\ (retry.pc = "loop") ~> (retry.pc = "idle")

\* Witness of C28: a call with attempts = MaxAttempts has returned the value
\* of its last try after locked errors on all the tries before it.
C28_Witness ==
    /\ retry.pc = "idle" /\ retry.attempts = MaxAttempts /\ retry.calls = MaxAttempts
    /\ \A k \in 1..(MaxAttempts - 1) : Locked(retry.outcomes[k])
    /\ retry.ret = Returned(1)

\* C29: a transaction block is all or nothing.  A block whose body ran to
\* its end and whose commit succeeded leaves the database with all the
\* statements of the body added at once; a block whose body (or BEGIN, or
\* commit) raised leaves the database as it was at entry and ends with the
\* exception that was raised; nothing is committed while the body runs; and
\* a begin mode that is none of DEFERRED, IMMEDIATE, EXCLUSIVE ends the
\* block with ValueError, no statement run, database and connection
\* untouched.
C29_AllOrNothing ==
    [][/\ (txn.pc = "idle" /\ txn' # txn
                /\ Normalise(txn'.mode) \notin {"DEFERRED", "IMMEDIATE", "EXCLUSIVE"})
            => /\ txn'.pc = "idle" /\ txn'.ret = "ValueError"
               /\ txn'.stmts = <<>> /\ db' = db /\ conn' = conn
       /\ txn'.pc \in {"body", "handler"} => db' = db /\ db' = txn'.before
       /\ (txn.pc = "body" /\ txn'.pc = "idle")
            => /\ txn'.ret = "exited" /\ ~conn'.open
               /\ db'.schema = txn.before.schema \cup RowsOf(txn.stmts)
               /\ db'.version = txn.before.version
       /\ (txn.pc = "handler" /\ txn'.pc = "idle")
            => /\ txn'.ret = txn.raised /\ txn.raised # "none" /\ ~conn'.open
               /\ db' = txn.before]_vars

\* Witness of C29: a body has raised after MaxStmts statements whose rows
\* the database did not hold, and the block has ended with that exception,
\* the database as before.
C29_Witness ==
    /\ txn.pc = "idle" /\ txn.ret = "RuntimeError"
    /\ Len(txn.stmts) = MaxStmts /\ txn.stmts[1] # txn.stmts[2]
    /\ RowsOf(txn.stmts) \cap txn.before.schema = {}
    /\ db = txn.before /\ ~conn.open

\* What a push logs of its requests to the remote store.
RemoteEvents ==
    {"probe", "probe_error", "upload_add", "upload_update", "upload_rejected",
     "upload_failed"}

\* C30: a push with a local file attempts the backup in its first step,
\* the remote neither probed nor written yet: the backup directory holds an
\* ordinary backup afterwards, or the attempt failed; the probe and the
\* uploads come only in later steps of that call.  A push that ends in a
\* revision conflict has attempted the conflicted copy when it returns
\* False.
C30_BackupFirstCopyBeforeFalse ==
    [][\A c \in Observed :
        /\ (BeginsPush(c) /\ local[c].exists)
            => /\ pc'[c] = "push_probe" /\ remote' = remote /\ md'[c] = NoMetadata
               /\ trace'[c][1] \in {"backup", "backup_failed"}
               /\ trace'[c][1] = "backup" => Ordinary(backupDir'[c]) # {}
               /\ trace'[c][1] = "backup_failed" => faults' = faults + 1
               /\ \A i \in 1..Len(trace'[c]) : trace'[c][i] \notin RemoteEvents
        /\ (pc[c] \in {"push_probe", "push_add", "push_update"} /\ Moves(c))
            => /\ trace[c][1] \in {"backup", "backup_failed"}
               /\ trace'[c][1] = trace[c][1]
               /\ \A i \in 1..Len(trace'[c]) : trace'[c][i] \in RemoteEvents => i > 2
        /\ (pc[c] \in {"push_probe", "push_update"} /\ pc'[c] = "idle"
                /\ Met(c, {"rev_diverged", "upload_rejected"})')
            => /\ result'[c] = [op |-> "push", ret |-> "False"]
               /\ \/ Last(trace'[c]) = "conflicted_copy"
                        /\ ConflictedCopyOf(c) \in backupDir'[c]
                  \/ Last(trace'[c]) = "conflicted_copy_failed"
                        /\ faults' = faults + 1
               /\ trace'[c][Len(trace'[c]) - 1] \in {"rev_diverged", "upload_rejected"}]_vars

\* Witness of C30: a push has made its backup, probed, found the revisions
\* diverged, made the conflicted copy and returned False.
C30_Witness ==
    \E c \in Observed :
        /\ Done(c, "push", "False")
        /\ trace[c] = <<"backup", "read_sidecars", "probe", "rev_diverged", "conflicted_copy">>
        /\ \E f \in backupDir[c] : f.kind = "bak" /\ f.content = local[c].content
        /\ \E f \in backupDir[c] : f.kind = "conflicted" /\ f.content = local[c].content

\* Clients c and d have each ended a push that started from sidecar
\* revision r and went on to the conditional upload.
PushedFrom(c, d, r) ==
    /\ c # d
    /\ result[c].op = "push" /\ pc[c] = "idle" /\ pre[c].rev = TextFile(r)
    /\ result[d].op = "push" /\ pc[d] = "idle" /\ pre[d].rev = TextFile(r)
    /\ Met(c, {"upload_update", "upload_rejected"})
    /\ Met(d, {"upload_update", "upload_rejected"})

\* C31 as claimed: of the pushes of several clients that start from the
\* same sidecar revision and reach the conditional upload, exactly one
\* returns True.
C31_ExactlyOneReturnsTrue ==
    \A c, d \in Clients : \A r \in 1..MaxRev :
        PushedFrom(c, d, r)
        => ~(result[c].ret = "True" /\ result[d].ret = "True")

\* C31 as amended: of the pushes of several clients that start from the
\* same sidecar revision r, at most one gives the remote object a new
\* revision; every other one is refused with False, or returns True for an
\* upload of the bytes the object already held, which the store answered
\* with revision r and which changed nothing; and they do not all fail.
C31_AtMostOneReplaces ==
    \A c, d \in Clients : \A r \in 1..MaxRev :
        PushedFrom(c, d, r)
        => /\ result[c].ret \in {"True", "False"} /\ result[d].ret \in {"True", "False"}
           /\ result[c].ret = "True" \/ result[d].ret = "True"
           /\ (result[c].ret = "True" /\ result[d].ret = "True")
                => md[c].rev = r \/ md[d].rev = r
           /\ (result[c].ret = "True" /\ md[c].rev # r) => result[d].ret = "False" \/ md[d].rev = r

\* Witness of C31: two pushes from the same revision, one has replaced the
\* object with its bytes and the other has been rejected by the store.
C31_Witness ==
    \E c, d \in Clients : \E r \in 1..MaxRev :
        /\ PushedFrom(c, d, r)
        /\ result[c].ret = "True" /\ md[c].rev # r
        /\ remote.rev = md[c].rev /\ remote.content = local[c].content
        /\ result[d].ret = "False" /\ Has(trace[d], "upload_rejected")

\* C32: when the probe of a push has reported the remote absent and another
\* writer has created the object before the create-mode upload is applied,
\* the upload is rejected: the other writer's object stays as it is, the
\* push raises an error and the sidecars are as they were before the call.
C32_LostCreateRaceRaises ==
    [][\A c \in Observed :
        (pc[c] = "push_add" /\ pc'[c] # pc[c] /\ remote.exists)
        => /\ remote' = remote
           /\ result'[c] = [op |-> "push", ret |-> "RuntimeError"]
           /\ Last(trace'[c]) \in {"upload_rejected", "upload_failed"}
           /\ ~Has(trace'[c], "write_sidecars")
           /\ revFile'[c] = revFile[c] /\ hashFile'[c] = hashFile[c]
           /\ Snapshot(c)' = pre[c]]_vars

\* Witness of C32: a push has ended with an error on a rejected create-mode
\* upload, and the object of the other writer is in the store.
C32_Witness ==
    \E c \in Observed :
        /\ Done(c, "push", "RuntimeError")
        /\ Last(trace[c]) = "upload_rejected"
        /\ ~Has(trace[c], "upload_failed")
        /\ remote.exists /\ remote.content # local[c].content
        /\ Snapshot(c) = pre[c]

\* The revision sidecar of c names revision r.
SidecarRev(c, r) == revFile[c] = TextFile(r)

\* The revision sidecar of c names a revision that the remote object, which
\* exists, does not have.
Diverged(c) ==
    \E r \in 1..MaxRev : SidecarRev(c, r) /\ remote.exists /\ remote.rev # r

\* The revision sidecar of c names a revision that is not the remote's,
\* whether the remote object exists or not.
Stale(c) ==
    \E r \in 1..MaxRev : SidecarRev(c, r) /\ (remote.exists => remote.rev # r)

\* A step in which a push of c is refused over the revision.
RefusedStep(c) ==
    /\ pc[c] \in {"push_probe", "push_update"} /\ pc'[c] = "idle"
    /\ result'[c].ret = "False"
    /\ Met(c, {"rev_diverged", "upload_rejected"})'

\* A push of c has been refused over the revision before: its conflicted
\* copy is in the backup directory, which no rotation touches.
RefusedBefore(c) == \E f \in backupDir[c] : f.kind = "conflicted"

\* A step of a push of client c.
PushStep(c) == Moves(c) /\ result'[c].op = "push"

\* A step of a downloading pull of client c.
DownloadStep(c) == pc[c] = "pull_download" /\ Moves(c)

\* The environment damages the revision sidecar of c between two calls.
DamageStep(c) == pc[c] = "idle" /\ pc'[c] = "idle" /\ revFile'[c] # revFile[c]

\* C33 as claimed: a refused push leaves the client with a sidecar revision
\* that is not the remote's; this lasts until the client runs a downloading
\* pull; and every later push of the client in that condition is refused, leaving
\* the remote object and both sidecars as they are.
C33_RefusedUntilPull ==
    [][\A c \in Observed :
        /\ RefusedStep(c) => Stale(c)'
        /\ (RefusedBefore(c) /\ Stale(c) /\ ~Stale(c)')
            => (DownloadStep(c) \/ DamageStep(c))
        /\ (RefusedBefore(c) /\ Stale(c) /\ PushStep(c))
            => /\ result'[c].ret # "True"
               /\ remote' = remote
               /\ revFile'[c] = revFile[c] /\ hashFile'[c] = hashFile[c]]_vars

\* C33 as amended: a push refused while the remote object exists leaves the
\* client with a sidecar revision that differs from that object's; this lasts
\* until the client runs a downloading pull or the remote object is deleted;
\* and no push of the client in that condition returns True (it returns
\* False, or raises when the local file is missing, a request fails or the
\* create-mode upload is rejected), overwrites the remote object or changes
\* a sidecar.
C33_RefusedWhileDiverged ==
    [][\A c \in Observed :
        /\ (RefusedStep(c) /\ remote.exists) => Diverged(c)'
        /\ (Diverged(c) /\ ~Diverged(c)')
            => (DownloadStep(c) \/ DamageStep(c) \/ ~remote'.exists)
        /\ (Diverged(c) /\ PushStep(c))
            => /\ result'[c].ret \in {"running", "False", "RuntimeError", "FileNotFoundError"}
               /\ remote' = remote
               /\ revFile'[c] = revFile[c] /\ hashFile'[c] = hashFile[c]
               /\ (pc[c] = "push_probe" /\ faults' = faults)
                    => pc'[c] = "idle" /\ result'[c].ret = "False"
               /\ (pc[c] = "push_update" /\ faults' = faults) => result'[c].ret = "False"]_vars

\* Witness of C33: a push has been refused over a diverged revision while
\* the backup directory holds the conflicted copy of an earlier refusal.
C33_Witness ==
    \E c \in Observed :
        /\ Done(c, "push", "False")
        /\ Has(trace[c], "rev_diverged")
        /\ Last(trace[c]) = "conflicted_copy_failed"
        /\ \E f \in backupDir[c] : f.kind = "conflicted"
        /\ Diverged(c)
        /\ Snapshot(c) = pre[c]

\* The local file of c exists and its revision sidecar names the revision of
\* the remote object.
InSync(c) ==
    /\ local[c].exists /\ remote.exists
    /\ SidecarRev(c, remote.rev)

\* C34: after a refused push, a pull by the same client downloads and
\* returns True, and leaves the client such that a following push, with no
\* write by another client in between and no failure, returns True: the
\* sidecar revision is the remote's when the pull returns, and a push from
\* there goes through the probe and the conditional upload to True.
C34_PullThenPushSucceeds ==
    [][\A c \in Observed :
        /\ (RefusedBefore(c) /\ Diverged(c) /\ BeginsPull(c) /\ faults' = faults)
            => pc'[c] = "pull_download"
        /\ (RefusedBefore(c) /\ DownloadStep(c) /\ remote.exists /\ faults' = faults)
            => /\ result'[c] = [op |-> "pull", ret |-> "True"]
               /\ InSync(c)'
        /\ (InSync(c) /\ PushStep(c) /\ faults' = faults)
            => /\ result'[c].ret \in {"running", "True"}
               /\ pc[c] = "push_probe" => pc'[c] = "push_update"
               /\ pc[c] = "push_update"
                    => result'[c].ret = "True" /\ remote'.content = local[c].content]_vars

\* C35: when the probe reports the remote absent, the push goes to the
\* create-mode upload whatever the sidecars contain, and when that upload is
\* applied it returns True with the local bytes in the store: no conflict is
\* reported and no conflicted copy is made, also with a revision sidecar
\* left from an object that has been deleted.
C35_AbsentRemoteUploads ==
    [][\A c \in Observed :
        /\ (pc[c] = "push_probe" /\ Moves(c) /\ ~remote.exists /\ faults' = faults)
            => /\ pc'[c] = "push_add"
               /\ backupDir'[c] = backupDir[c]
        /\ (pc[c] = "push_add" /\ Moves(c) /\ ~remote.exists
                /\ Last(trace'[c]) # "upload_failed")
            => /\ result'[c] = [op |-> "push", ret |-> "True"]
               /\ remote'.exists /\ remote'.content = local[c].content
               /\ backupDir'[c] = backupDir[c]
               /\ ~Met(c, {"rev_diverged", "no_sidecar_rev", "upload_rejected",
                           "conflicted_copy", "conflicted_copy_failed"})']_vars

\* Witness of C35: a push that began with a revision sidecar naming some
\* revision has found no remote object, uploaded in create mode and returned
\* True, and the backup directory holds no conflicted copy.
C35_Witness ==
    \E c \in Observed : \E r \in 1..MaxRev :
        /\ Done(c, "push", "True")
        /\ Has(trace[c], "upload_add")
        /\ pre[c].rev = TextFile(r)
        /\ remote.exists /\ remote.rev = md[c].rev /\ remote.rev # r
        /\ ~RefusedBefore(c)

\* A step of a pull of client c.
PullStep(c) == Moves(c) /\ result'[c].op = "pull"

\* C36: no step of pull_if_newer creates, changes or removes a file of the
\* backup directory; the download replaces the local content with neither a
\* backup nor a conflicted copy of what was there.
C36_PullLeavesBackupDir ==
    [][\A c \in Observed :
        PullStep(c)
        => /\ backupDir' = backupDir
           /\ (local'[c] # local[c]) => Met(c, {"download", "download_failed"})']_vars

\* Witness of C36: a pull has downloaded over an existing local file and
\* returned True, the sidecars have changed, and the backup directory is
\* empty.
C36_Witness ==
    \E c \in Observed :
        /\ Done(c, "pull", "True")
        /\ Has(trace[c], "download")
        /\ local[c].content = remote.content
        /\ pre[c].rev.kind = "text" /\ Snapshot(c) # pre[c]
        /\ backupDir[c] = {}

\* What _read_sidecar may return for the hash sidecar.
Hashes == {None} \cup {ContentHash(d) : d \in Contents}

\* The position a push is in after its probe has led to case k.
AfterCase(k) ==
    IF k = "add" THEN "push_add" ELSE IF k = "update" THEN "push_update" ELSE "idle"

SidecarsHold(c, r, h) == revFile[c] = TextFile(r) /\ hashFile[c] = TextFile(h)

\* C38: after every pull or push step that changes a sidecar, the sidecars,
\* when both are present, hold the revision and the content hash of one
\* remote version, the one the push uploaded or the one the pull probed,
\* also when one of the two sidecar writes fails; so sidecars that are both
\* present and name the revision of the remote object name its content hash.
C38_SidecarsSameVersion ==
    [][\A c \in Clients :
        /\ ((PushStep(c) \/ PullStep(c))
                /\ (revFile'[c] # revFile[c] \/ hashFile'[c] # hashFile[c])
                /\ revFile'[c].kind = "text" /\ hashFile'[c].kind = "text")
            => \/ /\ PushStep(c)
                  /\ revFile'[c] = TextFile(md'[c].rev)
                  /\ hashFile'[c] = TextFile(md'[c].hash)
               \/ /\ PullStep(c)
                  /\ revFile'[c] = TextFile(info[c].rev)
                  /\ hashFile'[c] = TextFile(info[c].hash)
        /\ \A r \in 1..MaxRev, d \in Contents :
            (SidecarsHold(c, r, ContentHash(d)) /\ remote.exists /\ remote.rev = r)
            => remote.content = d]_vars

\* The backup of c's local file that _make_backup names at this second,
\* <stem>_<timestamp>.bak<suffix>.
BackupOf(c) ==
    [kind |-> "bak", ts |-> clock, mtime |-> local[c].mtime, content |-> local[c].content]

\* C39: when _make_backup has made its backup and returned, the backup
\* directory holds the file it has just created, with the local content: the
\* rotation of that call has not removed it.
C39_NewBackupSurvivesRotation ==
    [][\A c \in Observed : BackupStep(c) => BackupOf(c) \in backupDir'[c]]_vars

\* The wrapper around execute_write returns normally in this step.
WriteReturns == retry.pc = "loop" /\ retry'.pc = "idle" /\ retry'.ret.kind = "return"

\* C40: when execute_write returns normally, the database holds one row
\* more than when the call began, whatever attempts failed with a locked
\* error at the statement or at the commit before, and the connection has
\* nothing left to commit.
C40_CommittedExactlyOnce ==
    [][WriteReturns
        => /\ Cardinality(db'.schema) = Cardinality(db.schema) + 1
           /\ ~conn'.open]_vars

====
